---- MODULE Spec2Model ----
(***************************************************************************)
(* A model of the coverage lookup of mtn-coverage-checker:                 *)
(*   MTNApi      (src/src/utils/mtnApi.ts)    bounds check, lookup cache   *)
(*               with TTL, primary GeoServer lookup, fallback tier;        *)
(*   ApiClient   (src/src/utils/apiClient.ts) proxy-based lookup.          *)
(* Coordinates are integers in units of 1e-5 degree, time is in ms.        *)
(* An async function runs atomically from one suspension point (an         *)
(* awaited fetch) to the next, as on the single-threaded event loop.       *)
(***************************************************************************)
EXTENDS Integers, Sequences, FiniteSets, TLC

VARIABLES
    now,      \* Date.now(), ms
    ticks,    \* number of clock advances so far (bounded by MaxTicks)
    cache,    \* MTNApi.cache: key -> [data, timestamp]
    calls,    \* MTNApi.checkCoverage activations, one frame per caller
    client,   \* the ApiClient activation
    session,  \* what this run exercises: the entry point and the in-bounds points
    eval,     \* the last application of a function on its own: [fn, input, output]
    app       \* the state of the App component and its lookups in flight

vars == <<now, ticks, cache, calls, client, session, eval, app>>

(***************************************************************************)
(* Bounds of the model                                                     *)
(***************************************************************************)
MaxTicks == 2

Procs == {1, 2}

(***************************************************************************)
(* Geographic classifier                                                   *)
(***************************************************************************)
saBounds == [north |-> -2200000, south |-> -3500000, east |-> 3300000, west |-> 1600000]

\* variant: the eastern boundary is not compared
isInSouthAfricaOpenEast(lat, lng) ==
    /\ lat >= saBounds.south
    /\ lat <= saBounds.north
    /\ lng >= saBounds.west

isInSouthAfrica(lat, lng) ==
    /\ lat >= saBounds.south
    /\ lat <= saBounds.north
    /\ lng >= saBounds.west
    /\ lng <= saBounds.east

provinces == <<
    [name |-> "Gauteng",       lat |-> <<-2650000, -2500000>>, lng |-> <<2750000, 2900000>>],
    [name |-> "Western Cape",  lat |-> <<-3450000, -3100000>>, lng |-> <<1750000, 2100000>>],
    [name |-> "KwaZulu-Natal", lat |-> <<-3150000, -2700000>>, lng |-> <<2850000, 3300000>>],
    [name |-> "Eastern Cape",  lat |-> <<-3350000, -3000000>>, lng |-> <<2200000, 2850000>>],
    [name |-> "Limpopo",       lat |-> <<-2550000, -2200000>>, lng |-> <<2650000, 3150000>>],
    [name |-> "Mpumalanga",    lat |-> <<-2650000, -2400000>>, lng |-> <<2850000, 3200000>>],
    [name |-> "North West",    lat |-> <<-2750000, -2400000>>, lng |-> <<2200000, 2850000>>],
    [name |-> "Free State",    lat |-> <<-3000000, -2650000>>, lng |-> <<2400000, 2950000>>],
    [name |-> "Northern Cape", lat |-> <<-3200000, -2600000>>, lng |-> <<1600000, 2600000>>] >>

InProvince(b, lat, lng) ==
    /\ lat >= b.lat[1] /\ lat <= b.lat[2]
    /\ lng >= b.lng[1] /\ lng <= b.lng[2]

\* variant: the last rectangle that contains the point wins
getProvinceLastMatch(lat, lng) ==
    LET hits == {k \in 1..Len(provinces) : InProvince(provinces[k], lat, lng)}
    IN  IF hits = {} THEN "Unknown"
        ELSE provinces[CHOOSE k \in hits : \A j \in hits : k >= j].name

getProvince(lat, lng) ==
    LET hits == {k \in 1..Len(provinces) : InProvince(provinces[k], lat, lng)}
    IN  IF hits = {} THEN "Unknown"
        ELSE provinces[CHOOSE k \in hits : \A j \in hits : k <= j].name

(***************************************************************************)
(* Cache key: `${latitude.toFixed(4)},${longitude.toFixed(4)}`.            *)
(* toFixed(4) rounds to 4 decimals, half away from zero; the key is the    *)
(* pair of rounded values (in units of 1e-4 degree).                       *)
(***************************************************************************)
Abs(v) == IF v < 0 THEN -v ELSE v

\* variant: the key keeps every decimal
toFixed4Exact(v) == v

toFixed4(v) ==
    LET m == (Abs(v) + 5) \div 10
    IN  IF v < 0 THEN -m ELSE m

cacheKeyOf(lat, lng) == <<toFixed4(lat), toFixed4(lng)>>

cacheTimeout == 300000

(***************************************************************************)
(* Technology layer registry (Object.entries order of technologyLayers)    *)
(***************************************************************************)
technologyLayers == <<
    [tech |-> "ALL",               mlid |-> "EBU-RBUS-ALL",        geoserverLayer |-> "mtnsi:MTN-EBU-RBUS-ALL2"],
    [tech |-> "2G",                mlid |-> "EBU-RBUS-ALL",        geoserverLayer |-> "mtnsi:MTNSA-Coverage-2G"],
    [tech |-> "3G",                mlid |-> "EBU-RBUS-ALL",        geoserverLayer |-> "mtnsi:MTNSA-Coverage-3G"],
    [tech |-> "4G",                mlid |-> "EBU-RBUS-ALL",        geoserverLayer |-> "mtnsi:MTNSA-Coverage-4G"],
    [tech |-> "5G",                mlid |-> "EBU-RBUS-ALL",        geoserverLayer |-> "mtnsi:MTNSA-Coverage-5G"],
    [tech |-> "UNCAPPED_WIRELESS", mlid |-> "UncappedWirelessEBU", geoserverLayer |-> "mtnsi:MTNSA-Coverage-Tarana"],
    [tech |-> "FIBRE",             mlid |-> "FTTBCoverage",        geoserverLayer |-> "mtnsi:MTN-FTTB-Feasible"],
    [tech |-> "LICENSED_WIRELESS", mlid |-> "PMPCoverage",         geoserverLayer |-> "mtnsi:MTN-PMP-Feasible-Integrated"],
    [tech |-> "FIXED_LTE",         mlid |-> "FLTECoverageEBU",     geoserverLayer |-> "mtnsi:MTNSA-Coverage-FIXLTE-EBU-0"] >>

NumLayers == Len(technologyLayers)

LayerTechs == {technologyLayers[k].tech : k \in 1..NumLayers}

(***************************************************************************)
(* Transport responses.  A fetch either rejects (net = "reject") or        *)
(* resolves with a response whose ok flag is set (net = "ok") or not       *)
(* (net = "status"); the body of a response is unparsable, the JSON value  *)
(* null, or a JSON object with or without a `features` array.  A feature   *)
(* is its `properties` object: a function from property names to scalars.  *)
(***************************************************************************)
Response(n, b, hf, fs) == [net |-> n, body |-> b, hasFeatures |-> hf, features |-> fs]

NetReject   == Response("reject", "none", FALSE, <<>>)
HttpError   == Response("status", "object", FALSE, <<>>)
BadJson     == Response("ok", "unparsable", FALSE, <<>>)
NullJson    == Response("ok", "null", FALSE, <<>>)
NoFeatures  == Response("ok", "object", FALSE, <<>>)
Features(fs) == Response("ok", "object", TRUE, fs)
\* a request the server never answers: fetch is given no signal and no
\* timer, so its promise stays pending
NoAnswer    == Response("silent", "none", FALSE, <<>>)

NoProps == [x \in {} |-> 0]

(***************************************************************************)
(* Response interpreter of MTNApi                                          *)
(***************************************************************************)
\* a JSON scalar: a string (its characters) or a number
Str(chars) == [kind |-> "string", chars |-> chars]
Num(n) == [kind |-> "number", n |-> n]

signalProps == <<"signal", "strength", "quality", "level", "power", "rssi">>

RECURSIVE SumSeq(_)
SumSeq(s) == IF s = <<>> THEN 0 ELSE Head(s) + SumSeq(Tail(s))

\* the values of one feature that count: numeric and > 0, under a signal name
FeatureValues(f) ==
    SelectSeq([k \in 1..Len(signalProps) |->
                   IF signalProps[k] \in DOMAIN f /\ f[signalProps[k]].kind = "number"
                   THEN f[signalProps[k]].n ELSE 0],
              LAMBDA v : v > 0)

RECURSIVE AllValues(_)
AllValues(features) ==
    IF features = <<>> THEN <<>>
    ELSE FeatureValues(Head(features)) \o AllValues(Tail(features))

\* variant: one default for every technology
techQualityFlat == [t \in {"2G", "3G", "4G", "5G", "UNCAPPED_WIRELESS", "FIBRE", "FIXED_LTE"} |-> 70]

techQuality == [t \in {"2G", "3G", "4G", "5G", "UNCAPPED_WIRELESS", "FIBRE", "FIXED_LTE"} |->
    CASE t = "2G" -> 60 [] t = "3G" -> 70 [] t = "4G" -> 85 [] t = "5G" -> 95
      [] t = "UNCAPPED_WIRELESS" -> 80 [] t = "FIBRE" -> 98 [] t = "FIXED_LTE" -> 75]

\* Math.round of a non-negative quotient
RoundDiv(total, count) == (2 * total + count) \div (2 * count)

Min(a, b) == IF a < b THEN a ELSE b
Max(a, b) == IF a > b THEN a ELSE b

\* variant: the tier is taken from the feature count alone
analyzeCoverageFeaturesByCount(features, techType) ==
    IF Len(features) = 0 THEN [strength |-> "low", quality |-> 0]
    ELSE
    LET vals == AllValues(features)
        totalQuality == SumSeq(vals)
        qualityCount == Len(vals)
        quality == IF qualityCount > 0 THEN RoundDiv(totalQuality, qualityCount)
                   ELSE IF techType \in DOMAIN techQuality THEN techQuality[techType]
                   ELSE 70
        strength == IF Len(features) >= 3 THEN "high"
                    ELSE IF Len(features) >= 2 THEN "medium"
                    ELSE "low"
    IN  [strength |-> strength, quality |-> Min(100, Max(0, quality))]

analyzeCoverageFeatures(features, techType) ==
    IF Len(features) = 0 THEN [strength |-> "low", quality |-> 0]
    ELSE
    LET vals == AllValues(features)
        totalQuality == SumSeq(vals)
        qualityCount == Len(vals)
        quality == IF qualityCount > 0 THEN RoundDiv(totalQuality, qualityCount)
                   ELSE IF techType \in DOMAIN techQuality THEN techQuality[techType]
                   ELSE 70
        strength == IF quality >= 85 /\ Len(features) >= 3 THEN "high"
                    ELSE IF quality >= 65 \/ Len(features) >= 2 THEN "medium"
                    ELSE "low"
    IN  [strength |-> strength, quality |-> Min(100, Max(0, quality))]

descriptions == [t \in {"2G", "3G", "4G", "5G", "UNCAPPED_WIRELESS", "FIBRE", "FIXED_LTE"} |->
    CASE t = "2G" -> "Legacy Network" [] t = "3G" -> "Enhanced Network"
      [] t = "4G" -> "LTE Network" [] t = "5G" -> "5G Network"
      [] t = "UNCAPPED_WIRELESS" -> "Fixed Wireless Access"
      [] t = "FIBRE" -> "Fibre Network" [] t = "FIXED_LTE" -> "Fixed LTE Access"]

getTechnologyDescription(techType) ==
    IF techType \in DOMAIN descriptions THEN descriptions[techType] ELSE "Network Coverage"

(***************************************************************************)
(* A completion of an awaited computation: it returns a value (possibly    *)
(* null) or throws.                                                        *)
(***************************************************************************)
Null == [null |-> TRUE]
Undefined == [undefined |-> TRUE]

Return(v) == [threw |-> FALSE, value |-> v]
Throw(msg) == [threw |-> TRUE, value |-> [message |-> msg]]

\* variant: an observation is made for every feature collection, empty or not
TechnologyCoverageBodyAnyCollection(resp, layer) ==
    IF resp.net = "reject" THEN Throw("Failed to fetch")
    ELSE IF resp.net = "ok" THEN
        IF resp.body = "unparsable" THEN Throw("Unexpected token")
        ELSE IF resp.body = "null" THEN Throw("Cannot read properties of null")
        ELSE IF resp.hasFeatures THEN
            LET coverageAnalysis == analyzeCoverageFeatures(resp.features, layer.tech)
            IN  Return([type |-> layer.tech,
                        available |-> TRUE,
                        strength |-> coverageAnalysis.strength,
                        quality |-> coverageAnalysis.quality,
                        infrastructureType |-> getTechnologyDescription(layer.tech),
                        features |-> resp.features,
                        layerInfo |-> layer])
        ELSE Return(Null)
    ELSE Return(Null)

\* the try block of checkTechnologyCoverage, after the fetch has settled
TechnologyCoverageBody(resp, layer) ==
    IF resp.net = "reject" THEN Throw("Failed to fetch")
    ELSE IF resp.net = "ok" THEN
        IF resp.body = "unparsable" THEN Throw("Unexpected token")
        ELSE IF resp.body = "null" THEN Throw("Cannot read properties of null")
        ELSE IF resp.hasFeatures /\ Len(resp.features) > 0 THEN
            LET coverageAnalysis == analyzeCoverageFeatures(resp.features, layer.tech)
            IN  Return([type |-> layer.tech,
                        available |-> TRUE,
                        strength |-> coverageAnalysis.strength,
                        quality |-> coverageAnalysis.quality,
                        infrastructureType |-> getTechnologyDescription(layer.tech),
                        features |-> resp.features,
                        layerInfo |-> layer])
        ELSE Return(Null)
    ELSE Return(Null)

\* checkTechnologyCoverage: its catch turns every throw into null
checkTechnologyCoverage(resp, layer) ==
    LET r == TechnologyCoverageBody(resp, layer)
    IN  IF r.threw THEN Return(Null) ELSE r


(***************************************************************************)
(* CoverageResult values                                                   *)
(***************************************************************************)
EmptyObject == [x \in {} |-> 0]

\* the optional address argument: absent, or a string
NoAddress == Undefined
Address(text) == [text |-> text]

\* address || `${latitude}, ${longitude}`
addressOrCoordinates(address, lat, lng) ==
    IF address = NoAddress THEN [formatted |-> <<lat, lng>>] ELSE address

Result(success, lat, lng, address, province, timestamp, coverage, errors) ==
    [success |-> success,
     coordinates |-> [lat |-> lat, lng |-> lng],
     address |-> address,
     province |-> province,
     timestamp |-> timestamp,
     coverage |-> coverage,
     errors |-> errors]

ValidationError == [endpoint |-> "validation", error |-> "Coordinates are outside South Africa"]

\* the result returned for coordinates outside the country envelope
outsideResult(lat, lng, address, t) ==
    Result(FALSE, lat, lng, addressOrCoordinates(address, lat, lng), "Unknown", t,
           EmptyObject, <<ValidationError>>)

\* the `results` object a lookup starts from
initialResults(lat, lng, address, t) ==
    Result(FALSE, lat, lng, addressOrCoordinates(address, lat, lng),
           getProvince(lat, lng), t, EmptyObject, <<>>)

\* Object.assign(target, source)
ObjectAssign(target, source) == source @@ target

ObjectKeys(o) == DOMAIN o

(***************************************************************************)
(* Lookup cache                                                            *)
(***************************************************************************)
MapDelete(m, key) == [k \in DOMAIN m \ {key} |-> m[k]]

\* variant: an entry already present is kept
addToCacheKeepsFirst(c, key, data, t) == c @@ (key :> [data |-> data, timestamp |-> t])

addToCache(c, key, data, t) == (key :> [data |-> data, timestamp |-> t]) @@ c

\* variant: the age comparison is reversed
getFromCacheReversed(c, key, t) ==
    IF key \in DOMAIN c /\ (t - c[key].timestamp) > cacheTimeout
    THEN [data |-> c[key].data, cache |-> c]
    ELSE [data |-> Null, cache |-> MapDelete(c, key)]

\* variant: an expired entry is left in the map
getFromCacheKeepsExpired(c, key, t) ==
    IF key \in DOMAIN c /\ (t - c[key].timestamp) < cacheTimeout
    THEN [data |-> c[key].data, cache |-> c]
    ELSE [data |-> Null, cache |-> c]

\* returns the data served (or Null) and the cache as the access leaves it
getFromCache(c, key, t) ==
    IF key \in DOMAIN c /\ (t - c[key].timestamp) < cacheTimeout
    THEN [data |-> c[key].data, cache |-> c]
    ELSE [data |-> Null, cache |-> MapDelete(c, key)]

(***************************************************************************)
(* Primary lookup: getRealMTNCoverage                                      *)
(***************************************************************************)
Optional(items) == [defined |-> Len(items) > 0, items |-> items]

\* what getRealMTNCoverage returns once the loop over the layers has ended
realCoverageOf(availableTechnologies, errors, lat, lng, address) ==
    IF Len(availableTechnologies) = 0 THEN Null
    ELSE [mtnGeoServer |->
            [available |-> TRUE,
             types |-> availableTechnologies,
             source |-> "MTN GeoServer WMS",
             coordinates |-> [lat |-> lat, lng |-> lng],
             address |-> address,
             errors |-> Optional(errors)]]

(***************************************************************************)
(* Fallback tier: the four legacy endpoints, in the order of the array     *)
(* coveragePromises                                                        *)
(***************************************************************************)
fallbackEndpoints == <<"publicQuery", "coveragePoint", "wmsFeatures", "consumerApi">>

fallbackSources == <<"MTN Public Coverage Query", "MTN Coverage API Point",
                     "MTN WMS Service", "MTN Consumer API">>

JsonOf(resp) ==
    IF resp.body = "null" THEN Null
    ELSE [hasFeatures |-> resp.hasFeatures, features |-> resp.features]

\* the try block of tryPublicCoverageQuery, tryCoverageApiPoint,
\* tryWMSFeatureInfo and tryAlternativeEndpoint (e = 1..4)
FallbackBody(e, resp) ==
    IF resp.net = "reject" THEN Throw("Failed to fetch")
    ELSE IF resp.net = "ok" THEN
        IF resp.body = "unparsable" THEN Throw("Unexpected token")
        ELSE IF e = 3 /\ resp.body = "null" THEN Throw("Cannot read properties of null")
        ELSE Return((fallbackEndpoints[e] :>
                [available |-> TRUE,
                 data |-> IF e = 3
                          THEN [hasFeatures |-> TRUE,
                                features |-> IF resp.hasFeatures THEN resp.features ELSE <<>>]
                          ELSE JsonOf(resp),
                 source |-> fallbackSources[e]]))
    ELSE Return(Null)

\* each try* function catches what its body throws and returns null
tryFallbackEndpoint(e, resp) ==
    LET r == FallbackBody(e, resp)
    IN  IF r.threw THEN Return(Null) ELSE r

Pending == [pending |-> TRUE]

\* responses.forEach of checkCoverage over the settled fallback promises
RECURSIVE processResponses(_, _, _)
processResponses(results, responses, index) ==
    IF index > Len(responses) THEN results
    ELSE LET response == responses[index]
             next == IF ~response.threw /\ response.value # Null
                     THEN [results EXCEPT !.coverage = ObjectAssign(@, response.value)]
                     ELSE IF response.threw
                     THEN [results EXCEPT !.errors =
                              Append(@, [endpoint |-> ToString(index - 1),
                                         error |-> response.value.message])]
                     ELSE results
         IN  processResponses(next, responses, index + 1)

\* lines 136-156: merge, determine overall success
aggregateFallback(results, responses) ==
    LET merged == processResponses(results, responses, 1)
    IN  [merged EXCEPT !.success = Cardinality(ObjectKeys(merged.coverage)) > 0]


(***************************************************************************)
(* MTNApi.checkCoverage as a process.  A frame holds the arguments and the *)
(* locals of one activation; pc is the suspension point:                   *)
(*   "idle"      no activation                                             *)
(*   "primary"   awaiting the fetch of layer i in getRealMTNCoverage       *)
(*   "fallback"  awaiting Promise.allSettled(coveragePromises)             *)
(*   "done"      the promise is fulfilled with ret                         *)
(*   "rejected"  the promise is rejected                                   *)
(* plan is the transport's answer to each layer's request during this      *)
(* activation (empty when it issues none).  Bookkeeping for the properties:*)
(* fetches counts the transport calls the activation issued, reads and     *)
(* writes its cache accesses, metAge is the age in ms of the entry its     *)
(* cache lookup met (-1 when it met none), doneAt the time the promise     *)
(* settled.                                                                *)
(***************************************************************************)
IdleFrame ==
    [pc |-> "idle", lat |-> 0, lng |-> 0, address |-> NoAddress, plan |-> <<>>,
     i |-> 0, availableTechnologies |-> <<>>, errors |-> <<>>, results |-> Null,
     fb |-> <<>>, fetches |-> 0, reads |-> 0, writes |-> 0, metAge |-> -1,
     doneAt |-> -1, ret |-> Null]

NewFrame(lat, lng, address) ==
    [IdleFrame EXCEPT !.lat = lat, !.lng = lng, !.address = address]

\* the promise settles; the locals die, the arguments and the plan are kept
Fulfil(f, value, t) ==
    [f EXCEPT !.pc = "done", !.ret = value, !.doneAt = t, !.i = 0, !.fb = <<>>,
              !.availableTechnologies = <<>>, !.errors = <<>>, !.results = Null]

\* the age of the entry a lookup of key meets at time t, -1 without entry
AgeMet(c, key, t) == IF key \in DOMAIN c THEN t - c[key].timestamp ELSE -1

\* lines 83-115: bounds check, cache lookup, first request of the primary lookup
MTNCheckCoverage(p, lat, lng, address, plan) ==
    /\ session.api = "MTNApi"
    /\ calls[p].pc \in {"idle", "done"}
    /\ LET f == NewFrame(lat, lng, address)
       IN  IF ~isInSouthAfrica(lat, lng)
           THEN /\ calls' = [calls EXCEPT ![p] = Fulfil(f, outsideResult(lat, lng, address, now), now)]
                /\ cache' = cache
           ELSE LET got == getFromCache(cache, cacheKeyOf(lat, lng), now)
                IN  /\ cache' = got.cache
                    /\ calls' = [calls EXCEPT ![p] =
                          IF got.data # Null
                          THEN Fulfil([f EXCEPT !.reads = 1,
                                                !.metAge = AgeMet(cache, cacheKeyOf(lat, lng), now)],
                                      got.data, now)
                          ELSE [f EXCEPT !.pc = "primary", !.i = 1, !.reads = 1,
                                         !.metAge = AgeMet(cache, cacheKeyOf(lat, lng), now),
                                         !.fetches = 1, !.plan = plan,
                                         !.results = initialResults(lat, lng, address, now)]]
    /\ UNCHANGED <<now, ticks, client, session, eval, app>>

\* variant: results.success is not set on the primary path
afterPrimaryNoFlag(f, realCoverage, c, t) ==
    IF realCoverage # Null
    THEN LET results == [f.results EXCEPT !.coverage = realCoverage]
         IN  [frame |-> Fulfil([f EXCEPT !.writes = @ + 1], results, t),
              cache |-> addToCache(c, cacheKeyOf(f.lat, f.lng), results, t)]
    ELSE [frame |-> [f EXCEPT !.pc = "fallback",
                              !.fb = [e \in 1..Len(fallbackEndpoints) |-> Pending],
                              !.fetches = @ + Len(fallbackEndpoints)],
          cache |-> c]

\* lines 117-133 once getRealMTNCoverage has returned realCoverage
\* variant: the fallback endpoints are queried whatever the primary lookup
\* yielded
afterPrimaryFallsThrough(f, realCoverage, c, t) ==
    [frame |-> [f EXCEPT !.pc = "fallback",
                         !.fb = [e \in 1..Len(fallbackEndpoints) |-> Pending],
                         !.fetches = @ + Len(fallbackEndpoints)],
     cache |-> c]

afterPrimary(f, realCoverage, c, t) ==
    IF realCoverage # Null
    THEN LET results == [f.results EXCEPT !.coverage = realCoverage, !.success = TRUE]
         IN  [frame |-> Fulfil([f EXCEPT !.writes = @ + 1], results, t),
              cache |-> addToCache(c, cacheKeyOf(f.lat, f.lng), results, t)]
    ELSE [frame |-> [f EXCEPT !.pc = "fallback",
                              !.fb = [e \in 1..Len(fallbackEndpoints) |-> Pending],
                              !.fetches = @ + Len(fallbackEndpoints)],
          cache |-> c]

\* lines 314-344: the fetch of layer i settles; the loop goes on to the next
\* layer's request or ends
MTNLayerSettles(p) ==
    /\ calls[p].pc = "primary"
    /\ calls[p].plan[calls[p].i] # NoAnswer
    /\ LET f == calls[p]
           layer == technologyLayers[f.i]
           coverage == checkTechnologyCoverage(f.plan[f.i], layer)
           g == IF coverage.threw
                THEN [f EXCEPT !.errors = Append(@, [tech |-> layer.tech,
                                                     error |-> coverage.value.message])]
                ELSE IF coverage.value # Null
                THEN [f EXCEPT !.availableTechnologies = Append(@, coverage.value)]
                ELSE f
       IN  IF f.i < NumLayers
           THEN /\ calls' = [calls EXCEPT ![p] = [g EXCEPT !.i = @ + 1, !.fetches = @ + 1]]
                /\ cache' = cache
           ELSE LET done == afterPrimary(g,
                               realCoverageOf(g.availableTechnologies, g.errors,
                                              g.lat, g.lng, g.address),
                               cache, now)
                IN  /\ calls' = [calls EXCEPT ![p] = done.frame]
                    /\ cache' = done.cache
    /\ UNCHANGED <<now, ticks, client, session, eval, app>>

\* variant: the aggregated result is cached whatever its success flag
afterFallbackCachesAll(f, c, t) ==
    LET results == aggregateFallback(f.results, f.fb)
    IN  [frame |-> Fulfil([f EXCEPT !.writes = @ + 1], results, t),
         cache |-> addToCache(c, cacheKeyOf(f.lat, f.lng), results, t)]

\* lines 135-164 once every fallback promise has settled
afterFallback(f, c, t) ==
    LET results == aggregateFallback(f.results, f.fb)
    IN  IF results.success
        THEN [frame |-> Fulfil([f EXCEPT !.writes = @ + 1], results, t),
              cache |-> addToCache(c, cacheKeyOf(f.lat, f.lng), results, t)]
        ELSE [frame |-> Fulfil(f, results, t), cache |-> c]

\* one fallback endpoint's fetch settles with resp; the last one to settle
\* resumes checkCoverage
MTNFallbackSettles(p, e, resp) ==
    /\ calls[p].pc = "fallback"
    /\ calls[p].fb[e] = Pending
    /\ LET f == [calls[p] EXCEPT !.fb[e] = tryFallbackEndpoint(e, resp)]
       IN  IF \E k \in DOMAIN f.fb : f.fb[k] = Pending
           THEN /\ calls' = [calls EXCEPT ![p] = f]
                /\ cache' = cache
           ELSE LET done == afterFallback(f, cache, now)
                IN  /\ calls' = [calls EXCEPT ![p] = done.frame]
                    /\ cache' = done.cache
    /\ UNCHANGED <<now, ticks, client, session, eval, app>>

\* the clock advances by d ms
Tick(d) ==
    /\ ticks < MaxTicks
    /\ now' = now + d
    /\ ticks' = ticks + 1
    /\ UNCHANGED <<cache, calls, client, session, eval, app>>

(***************************************************************************)
(* ApiClient (src/src/utils/apiClient.ts).                                 *)
(* A JSON value relayed by the proxy is Null or an object, modelled as a   *)
(* record holding exactly the fields that are present.  A string that the  *)
(* code inspects is a sequence of characters.                              *)
(***************************************************************************)
Has(o, field) == field \in DOMAIN o

Truthy(v) == IF v.kind = "string" THEN Len(v.chars) > 0 ELSE v.n # 0

\* a proxy response: net as for Response, json is "unparsable" or the value
ProxyResponse(n, parsable, value) == [net |-> n, parsable |-> parsable, json |-> value]

upperCase == <<"A", "B", "C", "D", "E", "F", "G", "H", "I", "J", "K", "L", "M",
               "N", "O", "P", "Q", "R", "S", "T", "U", "V", "W", "X", "Y", "Z">>
lowerCase == <<"a", "b", "c", "d", "e", "f", "g", "h", "i", "j", "k", "l", "m",
               "n", "o", "p", "q", "r", "s", "t", "u", "v", "w", "x", "y", "z">>

toLowerChar(c) ==
    IF \E k \in 1..Len(upperCase) : upperCase[k] = c
    THEN lowerCase[CHOOSE k \in 1..Len(upperCase) : upperCase[k] = c]
    ELSE c

toLowerCase(chars) == [k \in 1..Len(chars) |-> toLowerChar(chars[k])]

includes(chars, sub) ==
    \E k \in 0..(Len(chars) - Len(sub)) : SubSeq(chars, k + 1, k + Len(sub)) = sub

whiteSpace == {" ", "\t", "\n", "\r"}

RECURSIVE trimStart(_)
trimStart(chars) ==
    IF chars # <<>> /\ Head(chars) \in whiteSpace THEN trimStart(Tail(chars)) ELSE chars

RECURSIVE trimEnd(_)
trimEnd(chars) ==
    IF chars # <<>> /\ chars[Len(chars)] \in whiteSpace
    THEN trimEnd(SubSeq(chars, 1, Len(chars) - 1)) ELSE chars

trim(chars) == trimEnd(trimStart(chars))

noFeaturesMarker == <<"n", "o", " ", "f", "e", "a", "t", "u", "r", "e", "s">>
outsideMarker == <<"o", "u", "t", "s", "i", "d", "e">>

\* variant: the markers are matched without lower-casing the content
parseCoverageResultCaseSensitive(result) ==
    IF result = Null THEN Return(FALSE)
    ELSE IF Has(result, "type") /\ result.type = "text"
            /\ Has(result, "content") /\ Truthy(result.content)
    THEN IF result.content.kind # "string"
         THEN Throw("result.content.toLowerCase is not a function")
         ELSE LET content == result.content.chars
              IN  Return(/\ ~includes(content, noFeaturesMarker)
                         /\ ~includes(content, outsideMarker)
                         /\ trim(content) # <<>>)
    ELSE IF Has(result, "type") /\ result.type = "binary"
            /\ Has(result, "content") /\ Truthy(result.content)
    THEN Return(TRUE)
    ELSE Return(FALSE)

\* parseCoverageResult: returns a boolean, or throws when a text payload's
\* content is not a string
parseCoverageResult(result) ==
    IF result = Null THEN Return(FALSE)
    ELSE IF Has(result, "type") /\ result.type = "text"
            /\ Has(result, "content") /\ Truthy(result.content)
    THEN IF result.content.kind # "string"
         THEN Throw("result.content.toLowerCase is not a function")
         ELSE LET content == toLowerCase(result.content.chars)
              IN  Return(/\ ~includes(content, noFeaturesMarker)
                         /\ ~includes(content, outsideMarker)
                         /\ trim(content) # <<>>)
    ELSE IF Has(result, "type") /\ result.type = "binary"
            /\ Has(result, "content") /\ Truthy(result.content)
    THEN Return(TRUE)
    ELSE Return(FALSE)

\* checkSingleTechnology once its fetch has settled with resp
checkSingleTechnology(resp) ==
    IF resp.net = "reject" THEN Throw("Failed to fetch")
    ELSE IF resp.net # "ok" THEN
        LET errorData == IF resp.parsable THEN resp.json ELSE EmptyObject
        IN  IF errorData = Null THEN Throw("Cannot read properties of null")
            ELSE IF Has(errorData, "error") /\ errorData.error # ""
            THEN Throw(errorData.error)
            ELSE Throw("HTTP 500: Internal Server Error")
    ELSE IF ~resp.parsable THEN Throw("Unexpected token")
    ELSE Return(resp.json)

\* variant: the callback has no catch
settleTechnologyNoCatch(tech, resp) ==
    LET r == checkSingleTechnology(resp)
    IN  IF r.threw THEN r
        ELSE Return([tech |-> tech, result |-> r.value])

\* the async callback of technologies.map in checkMultipleTechnologies
settleTechnology(tech, resp) ==
    LET r == checkSingleTechnology(resp)
    IN  IF r.threw THEN Return([tech |-> tech, error |-> r.value.message])
        ELSE Return([tech |-> tech, result |-> r.value])

\* responses.forEach of checkMultipleTechnologies, from index on
RECURSIVE collectResponses(_, _, _)
collectResponses(results, responses, index) ==
    IF index > Len(responses) THEN results
    ELSE LET response == responses[index]
             next == IF response.threw THEN results
                     ELSE IF Has(response.value, "error") /\ response.value.error # ""
                     THEN ObjectAssign(results,
                              response.value.tech :> [error |-> response.value.error])
                     ELSE ObjectAssign(results,
                              response.value.tech :>
                                  IF Has(response.value, "result")
                                  THEN response.value.result ELSE Undefined)
         IN  collectResponses(next, responses, index + 1)

noSignal(tech) ==
    [types |-> <<[type |-> tech, available |-> FALSE,
                  signal_strength |-> "No Signal", technology |-> tech]>>]

observed(tech, hasCoverage) ==
    [types |-> <<[type |-> tech, available |-> hasCoverage,
                  signal_strength |-> IF hasCoverage THEN "Good" ELSE "No Signal",
                  technology |-> tech]>>]

clientTechnologies == <<"2G", "3G", "4G", "5G", "UNCAPPED_WIRELESS", "FIBRE",
                        "LICENSED_WIRELESS", "FIXED_LTE">>

\* Object.entries(results).forEach of checkCoverage over the keys in
\* insertion order; a throw of parseCoverageResult ends the loop
RECURSIVE processCoverage(_, _, _, _)
processCoverage(processed, results, order, index) ==
    IF index > Len(order) THEN Return(processed)
    ELSE LET tech == order[index]
             result == results[tech]
         IN  IF result # Null /\ result # Undefined
                /\ ~(Has(result, "error") /\ result.error # "")
             THEN LET hasCoverage == parseCoverageResult(result)
                  IN  IF hasCoverage.threw THEN hasCoverage
                      ELSE processCoverage(
                               ObjectAssign(processed, tech :> observed(tech, hasCoverage.value)),
                               results, order, index + 1)
             ELSE processCoverage(ObjectAssign(processed, tech :> noSignal(tech)),
                                  results, order, index + 1)

clientSource == "MTN Live API (via Vercel proxy)"

\* variant: checkCoverage has no catch
finishCheckCoverageNoCatch(results, order, lat, lng, address, t) ==
    LET processed == processCoverage(EmptyObject, results, order, 1)
    IN  IF processed.threw THEN processed
        ELSE Return([address |-> address,
                     coordinates |-> [lat |-> lat, lng |-> lng],
                     coverage |-> processed.value,
                     timestamp |-> t,
                     source |-> clientSource])

\* lines 128-176 of checkCoverage once checkMultipleTechnologies has resolved
\* with results (keys in the order given)
finishCheckCoverage(results, order, lat, lng, address, t) ==
    LET processed == processCoverage(EmptyObject, results, order, 1)
    IN  IF processed.threw
        THEN Return([address |-> address,
                     coordinates |-> [lat |-> lat, lng |-> lng],
                     coverage |-> EmptyObject,
                     timestamp |-> t,
                     source |-> clientSource,
                     error |-> processed.value.message])
        ELSE Return([address |-> address,
                     coordinates |-> [lat |-> lat, lng |-> lng],
                     coverage |-> processed.value,
                     timestamp |-> t,
                     source |-> clientSource])

(***************************************************************************)
(* ApiClient.checkMultipleTechnologies / checkCoverage as a process.       *)
(* pc: "idle", "multi" (awaiting Promise.allSettled(promises)), "done",    *)
(* "rejected".  plan[k] is the proxy's answer to the request of            *)
(* technologies[k], Open while the transport has not decided it;           *)
(* settled[k] is Pending until that request's callback has completed.      *)
(***************************************************************************)
Open == [open |-> TRUE]

IdleClient ==
    [pc |-> "idle", op |-> "none", lat |-> 0, lng |-> 0, address |-> Undefined,
     technologies |-> <<>>, plan |-> <<>>, settled |-> <<>>, fetches |-> 0, ret |-> Null]

\* technologies.map(async ...) issues every request before the first await
startMultiple(op, lat, lng, address, technologies, plan) ==
    [IdleClient EXCEPT !.pc = "multi", !.op = op, !.lat = lat, !.lng = lng,
                       !.address = address, !.technologies = technologies,
                       !.plan = plan,
                       !.settled = [k \in 1..Len(technologies) |-> Pending],
                       !.fetches = Len(technologies)]

allSettled(settled) == \A k \in DOMAIN settled : settled[k] # Pending

\* the continuation after `await Promise.allSettled(promises)`
resumeClient(f, t) ==
    LET results == collectResponses(EmptyObject, f.settled, 1)
        \* Object.entries(results): the keys present, in insertion order
        order == SelectSeq(f.technologies, LAMBDA tech : tech \in DOMAIN results)
        outcome == IF f.op = "checkMultipleTechnologies" THEN Return(results)
                   ELSE finishCheckCoverage(results, order,
                                            f.lat, f.lng, f.address, t)
    IN  IF outcome.threw
        THEN [f EXCEPT !.pc = "rejected", !.ret = outcome.value]
        ELSE [f EXCEPT !.pc = "done", !.ret = outcome.value]

ClientCheckMultipleTechnologies(lat, lng, technologies) ==
    /\ session.api = "ApiClient"
    /\ client.pc \in {"idle", "done"}
    /\ LET f == startMultiple("checkMultipleTechnologies", lat, lng, Undefined,
                              technologies, [k \in 1..Len(technologies) |-> Open])
       IN  client' = IF allSettled(f.settled) THEN resumeClient(f, now) ELSE f
    /\ UNCHANGED <<now, ticks, cache, calls, session, eval, app>>

ClientCheckCoverage(lat, lng, address, plan) ==
    /\ session.api = "ApiClient"
    /\ client.pc \in {"idle", "done"}
    /\ client' = startMultiple("checkCoverage", lat, lng, address,
                               clientTechnologies, plan)
    /\ UNCHANGED <<now, ticks, cache, calls, session, eval, app>>

\* the request of technologies[k] settles with resp; the last one resumes
\* the caller
ClientSettles(k, resp) ==
    /\ client.pc = "multi"
    /\ k \in DOMAIN client.settled
    /\ client.settled[k] = Pending
    /\ client.plan[k] \in {Open, resp}
    /\ LET f == [client EXCEPT !.plan[k] = resp,
                               !.settled[k] = settleTechnology(client.technologies[k], resp)]
       IN  client' = IF allSettled(f.settled) THEN resumeClient(f, now) ELSE f
    /\ UNCHANGED <<now, ticks, cache, calls, session, eval, app>>

(***************************************************************************)
(* App (src/unnamed/part_000): the React state result, isLoading,          *)
(* availableTechnologies and toggleState, and the activations of           *)
(* handleAddressSelect.  A lookup frame is "idle", "awaiting" (suspended   *)
(* at `await apiClient.checkCoverage`) or "done".  The state updates of    *)
(* one continuation are applied together.  For the properties, started     *)
(* counts the activations, order is an activation's rank among them, and   *)
(* outcome and shown keep what the lookup settled with and the state its   *)
(* continuation left.                                                      *)
(***************************************************************************)
\* ApiClient.checkCoverage from call to settlement, the proxy answering the
\* request of technologies[k] with plan[k]
clientCheckCoverage(lat, lng, address, plan, t) ==
    LET f == [startMultiple("checkCoverage", lat, lng, address, clientTechnologies, plan)
                 EXCEPT !.settled = [k \in 1..Len(clientTechnologies) |->
                                        settleTechnology(clientTechnologies[k], plan[k])]]
        g == resumeClient(f, t)
    IN  IF g.pc = "rejected" THEN Throw(g.ret.message) ELSE Return(g.ret)

noneSelected == [tech \in {clientTechnologies[k] : k \in DOMAIN clientTechnologies} |-> FALSE]

Contains(list, item) == \E k \in DOMAIN list : list[k] = item

\* variant: every observation is collected, available or not
pushTypesAny(technologies, types, index) ==
    technologies \o [k \in 1..(Len(types) - index + 1) |-> types[index + k - 1].type]

\* source.types.forEach of lines 39-43, from index on
RECURSIVE pushTypes(_, _, _)
pushTypes(technologies, types, index) ==
    IF index > Len(types) THEN technologies
    ELSE LET tech == types[index]
         IN  pushTypes(IF tech.available /\ ~Contains(technologies, tech.type)
                       THEN Append(technologies, tech.type) ELSE technologies,
                       types, index + 1)

\* lines 33-46: the technologies with an available observation, over the
\* sources of coverage.coverage in key order
RECURSIVE extractTechnologies(_, _, _, _)
extractTechnologies(technologies, coverage, order, index) ==
    IF index > Len(order) THEN technologies
    ELSE LET source == coverage[order[index]]
         IN  extractTechnologies(
                 IF Has(source, "types") THEN pushTypes(technologies, source.types, 1)
                 ELSE technologies,
                 coverage, order, index + 1)

\* lines 51-64
newToggleState(technologies) ==
    [tech \in DOMAIN noneSelected |-> Contains(technologies, tech)]

IdleLookup ==
    [pc |-> "idle", address |-> NoAddress, lat |-> 0, lng |-> 0, order |-> 0,
     outcome |-> Null, shown |-> Null]

IdleApp ==
    [result |-> Null, isLoading |-> FALSE, availableTechnologies |-> <<>>,
     toggleState |-> noneSelected, lookups |-> [l \in Procs |-> IdleLookup],
     started |-> 0]

Shown(a) ==
    [result |-> a.result, availableTechnologies |-> a.availableTechnologies,
     toggleState |-> a.toggleState]

\* lines 26-29: setIsLoading(true) and the call of apiClient.checkCoverage
startLookup(a, l, address, lat, lng) ==
    [a EXCEPT !.isLoading = TRUE,
              !.started = @ + 1,
              !.lookups[l] = [IdleLookup EXCEPT !.pc = "awaiting", !.address = address,
                                                !.lat = lat, !.lng = lng,
                                                !.order = a.started + 1]]

\* lines 30-82: the continuation of handleAddressSelect once the lookup of
\* frame l has settled with outcome
resumeLookup(a, l, outcome, t) ==
    LET f == a.lookups[l]
        b == IF ~outcome.threw
             THEN LET coverage == outcome.value
                      order == SelectSeq(clientTechnologies,
                                         LAMBDA tech : tech \in DOMAIN coverage.coverage)
                      technologies == extractTechnologies(<<>>, coverage.coverage, order, 1)
                  IN  [a EXCEPT !.result = coverage,
                                !.availableTechnologies = technologies,
                                !.toggleState = newToggleState(technologies)]
             ELSE [a EXCEPT !.result =
                                [success |-> FALSE,
                                 coordinates |-> [lat |-> f.lat, lng |-> f.lng],
                                 address |-> f.address,
                                 province |-> "Unknown",
                                 timestamp |-> t,
                                 coverage |-> EmptyObject,
                                 errors |-> <<[endpoint |-> "api",
                                               error |-> outcome.value.message]>>],
                            !.availableTechnologies = <<>>]
        c == [b EXCEPT !.isLoading = FALSE]
    IN  [c EXCEPT !.lookups[l] = [f EXCEPT !.pc = "done", !.outcome = outcome,
                                           !.shown = Shown(c)]]

\* a frame for a new activation is free, and the number of activations is
\* bounded
MaxLookups == 3

CanStart(l) ==
    /\ session.api = "App"
    /\ app.lookups[l].pc \in {"idle", "done"}
    /\ app.started < MaxLookups

\* AddressInput's onAddressSelect; the input is disabled while isLoading
HandleAddressSelect(l, address, lat, lng) ==
    /\ CanStart(l)
    /\ ~app.isLoading
    /\ app' = startLookup(app, l, address, lat, lng)
    /\ UNCHANGED <<now, ticks, cache, calls, client, session, eval>>

\* GoogleMap's onLocationSelect after a click on the map, which no state
\* disables
HandleMapLocationSelect(l, lat, lng, address) ==
    /\ CanStart(l)
    /\ app' = startLookup(app, l, address, lat, lng)
    /\ UNCHANGED <<now, ticks, cache, calls, client, session, eval>>

\* the Refresh button, rendered when there is a result and disabled while
\* isLoading
HandleRefresh(l) ==
    /\ CanStart(l)
    /\ app.result # Null
    /\ ~app.isLoading
    /\ app' = startLookup(app, l, app.result.address,
                          app.result.coordinates.lat, app.result.coordinates.lng)
    /\ UNCHANGED <<now, ticks, cache, calls, client, session, eval>>

\* lines 89-94
HandleTechnologyToggle(technology, enabled) ==
    /\ session.api = "App"
    /\ app.toggleState[technology] # enabled
    /\ app' = [app EXCEPT !.toggleState[technology] = enabled]
    /\ UNCHANGED <<now, ticks, cache, calls, client, session, eval>>

\* the lookup of frame l settles, the proxy having answered with plan
LookupSettles(l, plan) ==
    /\ app.lookups[l].pc = "awaiting"
    /\ LET f == app.lookups[l]
       IN  app' = resumeLookup(app, l,
                      clientCheckCoverage(f.lat, f.lng, f.address, plan, now), now)
    /\ UNCHANGED <<now, ticks, cache, calls, client, session, eval>>

\* the awaited promise of frame l rejects with an Error of this message
LookupRejects(l, message) ==
    /\ app.lookups[l].pc = "awaiting"
    /\ app' = resumeLookup(app, l, Throw(message), now)
    /\ UNCHANGED <<now, ticks, cache, calls, client, session, eval>>

(***************************************************************************)
(* Inputs                                                                  *)
(***************************************************************************)
Johannesburg == <<-2620410, 2804730>>

\* in-bounds points of a session: Johannesburg with a point 2e-5 degrees
\* from it that rounds to the same key, or a corner of the envelope
Sites == {{Johannesburg, <<-2620412, 2804731>>},
          {<<-3500000, 1600000>>}, {<<-2200000, 3300000>>}}

\* out-of-bounds points: one step beyond each side, and far away
OutsidePoints == {<<-3500001, 1600000>>, <<-2199999, 3300000>>,
                  <<-3500000, 1599999>>, <<-2200000, 3300001>>,
                  <<-2620410, 3300001>>, <<0, 0>>}

OneFeature == <<NoProps>>

UniformPlan(resp) == [k \in 1..NumLayers |-> resp]

\* every layer fails or yields nothing, each kind of answer occurring
FailingPlan ==
    [k \in 1..NumLayers |->
        CASE k % 6 = 1 -> NetReject
          [] k % 6 = 2 -> HttpError
          [] k % 6 = 3 -> BadJson
          [] k % 6 = 4 -> NullJson
          [] k % 6 = 5 -> NoFeatures
          [] OTHER     -> Features(<<>>)]

\* FailingPlan, but layer b answers with one feature
PartialPlan(b) == [FailingPlan EXCEPT ![b] = Features(OneFeature)]

Plans == {UniformPlan(Features(OneFeature)), FailingPlan, PartialPlan(3), PartialPlan(6)}

FallbackResponses == {NetReject, HttpError, BadJson, NoFeatures}

ClockSteps == {1, cacheTimeout - 1}

\* what the proxy relays
textCoverage == Str(<<"M", "T", "N", " ", "4", "G">>)
textNoFeatures == Str(<<"N", "o", " ", "F", "e", "a", "t", "u", "r", "e", "s">>)

ProxyText(content) == ProxyResponse("ok", TRUE, [type |-> "text", content |-> content])
ProxyBinary(content) ==
    ProxyResponse("ok", TRUE, [type |-> "binary", content |-> content,
                               contentType |-> "image/png"])
ProxyFeatures(fs) ==
    ProxyResponse("ok", TRUE, [type |-> "FeatureCollection", features |-> fs])
ProxyError(msg) == ProxyResponse("status", TRUE, [error |-> msg])
ProxyReject == ProxyResponse("reject", FALSE, Null)
ProxyBadJson == ProxyResponse("ok", FALSE, Null)
ProxyNull == ProxyResponse("ok", TRUE, Null)
ProxyBadStatus == ProxyResponse("status", FALSE, Null)
\* a request the proxy never answers
ProxyNoAnswer == ProxyResponse("silent", FALSE, Null)

ProxyResponses ==
    {ProxyText(textCoverage), ProxyText(textNoFeatures), ProxyText(Num(5)),
     ProxyBinary(Str(<<"i", "V", "B", "O">>)), ProxyFeatures(OneFeature),
     ProxyError("MTN API error: 500"), ProxyReject, ProxyBadJson, ProxyNull,
     ProxyBadStatus}

\* the answers to the eight requests of ApiClient.checkCoverage: each kind
\* of answer once
VariedAnswers ==
    <<ProxyText(textCoverage), ProxyText(textNoFeatures),
      ProxyBinary(Str(<<"i", "V", "B", "O">>)), ProxyFeatures(OneFeature),
      ProxyError("MTN API error: 500"), ProxyReject, ProxyBadJson, ProxyNull>>

ClientPlans ==
    {VariedAnswers,
     [k \in 1..Len(clientTechnologies) |-> ProxyText(textCoverage)],
     [k \in 1..Len(clientTechnologies) |-> ProxyBadStatus],
     [VariedAnswers EXCEPT ![4] = ProxyText(Num(5))]}

\* lists of distinct technologies of at most MaxTechs entries
MaxTechs == 2

RequestedTechs == {"2G", "5G", "FIBRE"}

DistinctLists(n) ==
    {l \in UNION {[1..m -> RequestedTechs] : m \in 0..n} :
        \A a, b \in DOMAIN l : a # b => l[a] # l[b]}

Sessions ==
    {[api |-> "MTNApi", points |-> P] : P \in Sites}
    \cup {[api |-> "ApiClient", points |-> {Johannesburg}]}
    \cup {[api |-> "App", points |-> {Johannesburg}]}

(***************************************************************************)
(* Specification: one caller at a time of MTNApi or of ApiClient, the      *)
(* clock and the transport.  The two clients share no state, so a run      *)
(* exercises one of them.                                                  *)
(***************************************************************************)
NoEval == [fn |-> "none"]

Init ==
    /\ now = 0
    /\ ticks = 0
    /\ cache = EmptyObject
    /\ calls = [p \in Procs |-> IdleFrame]
    /\ client = IdleClient
    /\ session \in Sessions
    /\ eval = NoEval
    /\ app = IdleApp

Next ==
    \/ \E pt \in session.points \cup OutsidePoints, plan \in Plans :
          MTNCheckCoverage(1, pt[1], pt[2], NoAddress, plan)
    \/ MTNLayerSettles(1)
    \/ \E e \in 1..Len(fallbackEndpoints), resp \in FallbackResponses :
          MTNFallbackSettles(1, e, resp)
    \/ \E d \in ClockSteps : Tick(d)
    \/ \E pt \in session.points, plan \in ClientPlans :
          ClientCheckCoverage(pt[1], pt[2], Address("12 Main Rd"), plan)
    \/ \E technologies \in DistinctLists(MaxTechs) :
          ClientCheckMultipleTechnologies(Johannesburg[1], Johannesburg[2], technologies)
    \/ \E k \in 1..Len(clientTechnologies), resp \in ProxyResponses :
          ClientSettles(k, resp)

Spec == Init /\ [][Next]_vars

(***************************************************************************)
(* Properties                                                              *)
(***************************************************************************)
\* the country envelope as the documentation states it: lat [-35, -22],
\* lng [16, 33], boundaries included
InEnvelope(lat, lng) ==
    /\ -3500000 <= lat /\ lat <= -2200000
    /\ 1600000 <= lng /\ lng <= 3300000

\* caller p starts a new activation in this step
Starts(p) == calls[p].pc \in {"idle", "done"} /\ calls'[p] # calls[p]

\* caller p's activation that has ended is followed by one with the same
\* coordinates
Repeats(p) ==
    /\ calls[p].pc = "done"
    /\ calls'[p] # calls[p]
    /\ calls'[p].lat = calls[p].lat
    /\ calls'[p].lng = calls[p].lng

KeyOfFrame(f) == cacheKeyOf(f.lat, f.lng)

\* C1: a lookup outside the envelope ends at once with the validation
\* failure, issues no transport call and does not touch the cache
C1_OutsideRejected ==
    \A p \in Procs :
        (calls[p].pc # "idle" /\ ~InEnvelope(calls[p].lat, calls[p].lng)) =>
            /\ calls[p].pc = "done"
            /\ calls[p].ret.success = FALSE
            /\ calls[p].ret.province = "Unknown"
            /\ calls[p].ret.coverage = EmptyObject
            /\ calls[p].ret.errors =
                  <<[endpoint |-> "validation",
                     error |-> "Coordinates are outside South Africa"]>>
            /\ calls[p].fetches = 0
            /\ calls[p].reads = 0
            /\ calls[p].writes = 0

\* a rejected lookup one step beyond the southern boundary, made while the
\* cache holds an entry
C1_Witness ==
    /\ calls[1].pc = "done"
    /\ calls[1].lat = -3500001
    /\ calls[1].ret.errors # <<>>
    /\ cache # EmptyObject

\* C2 (as claimed): every value ApiClient.checkCoverage resolves with is a
\* well-formed CoverageResult: boolean success, an errors list, a province
C2_WellFormedResult ==
    (client.pc = "done" /\ client.op = "checkCoverage") =>
        /\ Has(client.ret, "success")
        /\ client.ret.success \in BOOLEAN
        /\ Has(client.ret, "errors")
        /\ Has(client.ret, "province")

\* C3 (as claimed): for all in-bounds coordinates, a lookup that went to the
\* transport, repeated with the same coordinates less than the TTL after it
\* returned, is answered with the identical result and no transport call
C3_RepeatIdentical ==
    [][(/\ Repeats(1)
        /\ InEnvelope(calls[1].lat, calls[1].lng)
        /\ calls[1].fetches > 0
        /\ now - calls[1].doneAt < cacheTimeout)
       => (/\ calls'[1].pc = "done"
           /\ calls'[1].ret = calls[1].ret
           /\ calls'[1].fetches = 0)]_vars

\* C3 (amended): the same, for a first lookup that returned success = true
C3_RepeatIdenticalAfterSuccess ==
    [][(/\ Repeats(1)
        /\ InEnvelope(calls[1].lat, calls[1].lng)
        /\ calls[1].fetches > 0
        /\ calls[1].ret.success
        /\ now - calls[1].doneAt < cacheTimeout)
       => (/\ calls'[1].pc = "done"
           /\ calls'[1].ret = calls[1].ret
           /\ calls'[1].fetches = 0)]_vars

\* a lookup answered from an entry in the last millisecond of its TTL
C3_Witness ==
    /\ calls[1].pc = "done"
    /\ calls[1].reads = 1
    /\ calls[1].fetches = 0
    /\ calls[1].metAge = cacheTimeout - 1
    /\ calls[1].ret.success

\* C4: a lookup that meets an entry whose TTL has expired removes the entry
\* and goes to the transport
C4_ExpiredRefetched ==
    [][\A p \in Procs :
        (/\ Starts(p)
         /\ InEnvelope(calls'[p].lat, calls'[p].lng)
         /\ KeyOfFrame(calls'[p]) \in DOMAIN cache
         /\ now - cache[KeyOfFrame(calls'[p])].timestamp >= cacheTimeout)
        => (/\ calls'[p].pc = "primary"
            /\ calls'[p].fetches = 1
            /\ KeyOfFrame(calls'[p]) \notin DOMAIN cache')]_vars

\* a lookup under way that met an expired entry, now gone
C4_Witness ==
    /\ calls[1].pc = "primary"
    /\ calls[1].metAge >= cacheTimeout
    /\ KeyOfFrame(calls[1]) \notin DOMAIN cache

\* C5: every cache entry holds a successful result; a lookup that ends with
\* success = false writes no entry, and repeating it goes to the transport again
C5_OnlySuccessesCached ==
    /\ [](\A k \in DOMAIN cache : cache[k].data.success = TRUE)
    /\ [](\A p \in Procs :
            (calls[p].pc = "done" /\ ~calls[p].ret.success) => calls[p].writes = 0)
    /\ [][(/\ Repeats(1)
           /\ calls[1].fetches > 0
           /\ ~calls[1].ret.success)
          => (calls'[1].pc = "primary" /\ calls'[1].fetches = 1)]_vars

\* a lookup that met an entry, went through both tiers, failed and left the
\* cache without an entry for its key
C5_Witness ==
    /\ calls[1].pc = "done"
    /\ ~calls[1].ret.success
    /\ calls[1].fetches = NumLayers + Len(fallbackEndpoints)
    /\ calls[1].metAge >= 0
    /\ KeyOfFrame(calls[1]) \notin DOMAIN cache

\* C6: every result returned has success = true exactly when its coverage
\* holds at least one source
C6_SuccessIffCoverage ==
    \A p \in Procs :
        calls[p].pc = "done" =>
            (calls[p].ret.success <=> ObjectKeys(calls[p].ret.coverage) # {})

\* a result of the fallback tier with two sources
C6_Witness ==
    /\ calls[1].pc = "done"
    /\ calls[1].ret.success
    /\ {"publicQuery", "consumerApi"} \subseteq ObjectKeys(calls[1].ret.coverage)

TransportFailed(resp) == resp.net \in {"reject", "status"}

AnsweredFeatures(resp) == resp.net = "ok" /\ resp.hasFeatures /\ Len(resp.features) > 0

\* some error entry of the result, top-level or of the GeoServer source,
\* names the technology
ErrorReferences(result, tech) ==
    \/ \E k \in DOMAIN result.errors : result.errors[k].endpoint = tech
    \/ /\ Has(result.coverage, "mtnGeoServer")
       /\ result.coverage.mtnGeoServer.errors.defined
       /\ \E k \in DOMAIN result.coverage.mtnGeoServer.errors.items :
             result.coverage.mtnGeoServer.errors.items[k].tech = tech

\* C7 (as claimed): if the transport call of technology a fails while that of
\* b returns features, the result is successful, holds an observation for b
\* and an error entry that references a
C7_PartialSuccessLaw ==
    \A p \in Procs :
        (calls[p].pc = "done" /\ calls[p].plan # <<>>) =>
            \A a, b \in 1..NumLayers :
                (TransportFailed(calls[p].plan[a]) /\ AnsweredFeatures(calls[p].plan[b])) =>
                    /\ calls[p].ret.success
                    /\ Has(calls[p].ret.coverage, "mtnGeoServer")
                    /\ \E k \in DOMAIN calls[p].ret.coverage.mtnGeoServer.types :
                          calls[p].ret.coverage.mtnGeoServer.types[k].type =
                              technologyLayers[b].tech
                    /\ ErrorReferences(calls[p].ret, technologyLayers[a].tech)

\* C8 (as claimed): when the primary lookup and every fallback endpoint
\* yield nothing, the result has success = false, empty coverage and an
\* error entry for every attempted fallback endpoint
C8_TotalFailureListsErrors ==
    \A p \in Procs :
        (/\ calls[p].pc = "done"
         /\ calls[p].fetches = NumLayers + Len(fallbackEndpoints)
         /\ ObjectKeys(calls[p].ret.coverage) = {}) =>
            /\ ~calls[p].ret.success
            /\ \A e \in 1..Len(fallbackEndpoints) :
                  \E k \in DOMAIN calls[p].ret.errors :
                      calls[p].ret.errors[k].endpoint \in
                          {ToString(e - 1), fallbackEndpoints[e]}

\* C9: no lookup of MTNApi or of ApiClient ever rejects; one that has ended
\* has resolved with a result value
C9_NeverRejects ==
    /\ \A p \in Procs :
          /\ calls[p].pc # "rejected"
          /\ calls[p].pc = "done" => calls[p].ret # Null
    /\ client.pc # "rejected"
    /\ (client.pc = "done" /\ client.op = "checkCoverage") => client.ret # Null

\* an ApiClient.checkCoverage that resolved although one request was
\* rejected, one answered non-2xx, one had an unparsable body and one
\* payload made the interpreter throw
C9_Witness ==
    /\ client.pc = "done"
    /\ client.op = "checkCoverage"
    /\ \E k \in DOMAIN client.plan : client.plan[k].net = "reject"
    /\ \E k \in DOMAIN client.plan : client.plan[k].net = "status"
    /\ \E k \in DOMAIN client.plan : client.plan[k].net = "ok" /\ ~client.plan[k].parsable
    /\ Has(client.ret, "error")

\* the request answered by resp fails in checkSingleTechnology
RequestFails(resp) == resp.net # "ok" \/ ~resp.parsable

\* C10: checkMultipleTechnologies never rejects, resolves only when every
\* request has settled, and its map has exactly one key per requested
\* technology, holding that technology's response or an {error} record
C10_OneKeyPerTechnology ==
    client.op = "checkMultipleTechnologies" =>
        /\ client.pc # "rejected"
        /\ client.pc = "done" =>
              /\ allSettled(client.settled)
              /\ DOMAIN client.ret =
                    {client.technologies[k] : k \in DOMAIN client.technologies}
              /\ \A k \in DOMAIN client.technologies :
                    LET held == client.ret[client.technologies[k]]
                    IN  IF RequestFails(client.plan[k])
                        THEN DOMAIN held = {"error"}
                        ELSE held = client.plan[k].json

\* two requests, the first failed and the second answered
C10_Witness ==
    /\ client.op = "checkMultipleTechnologies"
    /\ client.pc = "done"
    /\ Len(client.technologies) = 2
    /\ RequestFails(client.plan[1])
    /\ ~RequestFails(client.plan[2])
    /\ client.plan[2].json # Null

\* C11 (as claimed): getRealMTNCoverage submits the request of every
\* technology layer before it awaits any of them: while the primary lookup
\* is waiting, all the layers' requests have been issued
C11_AllLayersSubmittedFirst ==
    \A p \in Procs :
        calls[p].pc = "primary" => calls[p].fetches = NumLayers

(***************************************************************************)
(* Specification with a transport that may leave a request unanswered.     *)
(* Every answer the transport does give is delivered, and a continuation   *)
(* whose promise has settled runs: weak fairness of the settle steps.      *)
(***************************************************************************)
\* layer b is never answered, the others answer with a feature
SilentPlan(b) == [UniformPlan(Features(OneFeature)) EXCEPT ![b] = NoAnswer]

TimeoutPlans == {UniformPlan(Features(OneFeature)), FailingPlan, SilentPlan(2)}

ClientTimeoutPlans == {VariedAnswers, [VariedAnswers EXCEPT ![3] = ProxyNoAnswer]}

NextTimeout ==
    \/ \E pt \in session.points, plan \in TimeoutPlans :
          MTNCheckCoverage(1, pt[1], pt[2], NoAddress, plan)
    \/ MTNLayerSettles(1)
    \/ \E e \in 1..Len(fallbackEndpoints), resp \in FallbackResponses :
          MTNFallbackSettles(1, e, resp)
    \/ \E pt \in session.points, plan \in ClientTimeoutPlans :
          ClientCheckCoverage(pt[1], pt[2], Address("12 Main Rd"), plan)
    \/ \E k \in 1..Len(clientTechnologies), resp \in ProxyResponses :
          ClientSettles(k, resp)

SpecTimeout ==
    /\ Init
    /\ [][NextTimeout]_vars
    /\ WF_vars(MTNLayerSettles(1))
    /\ WF_vars(\E e \in 1..Len(fallbackEndpoints), resp \in FallbackResponses :
                  MTNFallbackSettles(1, e, resp))
    /\ WF_vars(\E k \in 1..Len(clientTechnologies), resp \in ProxyResponses :
                  ClientSettles(k, resp))

\* C12 (as claimed): a lookup under way eventually returns even if the
\* request of one technology is never answered
C12_EventuallyReturns ==
    /\ (calls[1].pc \in {"primary", "fallback"}) ~> (calls[1].pc = "done")
    /\ (client.pc = "multi") ~> (client.pc = "done")

\* the proxy relayed a JSON feature collection for the request
RelayedFeatureCollection(resp) ==
    /\ resp.net = "ok"
    /\ resp.parsable
    /\ Has(resp.json, "features")

\* C13 (as claimed): when the proxy relays a JSON feature collection for a
\* technology, ApiClient.checkCoverage reports the technology as available
\* exactly when the collection has at least one feature
C13_FeatureCollectionAvailability ==
    (client.pc = "done" /\ client.op = "checkCoverage") =>
        \A k \in DOMAIN client.technologies :
            (/\ RelayedFeatureCollection(client.plan[k])
             /\ Has(client.ret.coverage, client.technologies[k])) =>
                (client.ret.coverage[client.technologies[k]].types[1].available
                    <=> Len(client.plan[k].json.features) > 0)

\* the response is OK and its body is an object whose feature collection is
\* not empty
OkWithFeatures(resp) ==
    /\ resp.net = "ok"
    /\ resp.body = "object"
    /\ resp.hasFeatures
    /\ Len(resp.features) > 0

\* the observations hold one of the technology
ObservedIn(observations, tech) ==
    \E n \in DOMAIN observations : observations[n].type = tech

\* C14: a layer's request yields an observation, with available = true,
\* exactly when its response is OK with a non-empty feature collection; in
\* every other case it yields none, so mtnGeoServer.types lists only
\* available technologies
C14_ObservationIffFeatures ==
    \A p \in Procs :
        LET f == calls[p]
        IN  /\ f.pc = "primary" =>
                 /\ \A k \in 1..(f.i - 1) :
                       ObservedIn(f.availableTechnologies, technologyLayers[k].tech)
                           <=> OkWithFeatures(f.plan[k])
                 /\ \A n \in DOMAIN f.availableTechnologies :
                       f.availableTechnologies[n].available = TRUE
            /\ (f.pc = "done" /\ f.plan # <<>>) =>
                 IF Has(f.ret.coverage, "mtnGeoServer")
                 THEN LET types == f.ret.coverage.mtnGeoServer.types
                      IN  /\ \A k \in 1..NumLayers :
                                ObservedIn(types, technologyLayers[k].tech)
                                    <=> OkWithFeatures(f.plan[k])
                          /\ \A n \in DOMAIN types : types[n].available = TRUE
                 ELSE \A k \in 1..NumLayers : ~OkWithFeatures(f.plan[k])

\* a result with one observation, of the only layer that answered with a
\* feature, after a rejected request, a non-2xx answer, an unparsable body,
\* a null body, a body without features and an empty collection
C14_Witness ==
    /\ calls[1].pc = "done"
    /\ calls[1].plan # <<>>
    /\ Has(calls[1].ret.coverage, "mtnGeoServer")
    /\ Len(calls[1].ret.coverage.mtnGeoServer.types) = 1
    /\ \E k \in 1..NumLayers : calls[1].plan[k] = NetReject
    /\ \E k \in 1..NumLayers : calls[1].plan[k] = HttpError
    /\ \E k \in 1..NumLayers : calls[1].plan[k] = BadJson
    /\ \E k \in 1..NumLayers : calls[1].plan[k] = NullJson
    /\ \E k \in 1..NumLayers : calls[1].plan[k] = NoFeatures
    /\ \E k \in 1..NumLayers : calls[1].plan[k] = Features(<<>>)

(***************************************************************************)
(* Specification of the functions taken on their own: a run applies one of *)
(* them to an input of a bounded set and records the outcome.              *)
(***************************************************************************)
Apply(fn, input, output) ==
    /\ eval' = [fn |-> fn, input |-> input, output |-> output]
    /\ UNCHANGED <<now, ticks, cache, calls, client, session, app>>

toUpperChar(c) ==
    IF \E k \in 1..Len(lowerCase) : lowerCase[k] = c
    THEN upperCase[CHOOSE k \in 1..Len(lowerCase) : lowerCase[k] = c]
    ELSE c

\* chars in every mix of upper and lower case
CaseVariants(chars) ==
    {[k \in 1..Len(chars) |-> IF k \in U THEN toUpperChar(chars[k]) ELSE chars[k]] :
        U \in SUBSET (1..Len(chars))}

\* the markers in every letter case, near misses of them, blank and plain text
TextCores ==
    CaseVariants(noFeaturesMarker) \cup CaseVariants(outsideMarker)
    \cup {<<>>, <<" ">>, <<"\t", "\n">>,
          <<"M", "T", "N", " ", "4", "G">>,
          <<"n", "o", " ", "f", "e", "a", "t", "u", "r", "e">>,
          <<"n", "o", "f", "e", "a", "t", "u", "r", "e", "s">>,
          <<"o", "u", "t", "s", "i", "d">>,
          <<"o", "u", "t", " ", "s", "i", "d", "e">>}

Affixes == {<<>>, <<" ">>, <<"x">>}

TextContents == {pre \o core \o post : pre \in Affixes, core \in TextCores, post \in Affixes}

BinaryContents == {<<>>, <<" ">>, <<"i", "V", "B", "O">>, outsideMarker}

Payloads ==
    {[type |-> "text", content |-> Str(c)] : c \in TextContents}
    \cup {[type |-> "binary", content |-> Str(c), contentType |-> "image/png"] :
             c \in BinaryContents}
    \cup {Null, [type |-> "text"], [type |-> "binary"],
          [type |-> "FeatureCollection", features |-> OneFeature]}

InitFunctions == Init /\ session.api = "ApiClient"

\* feature lists of at most MaxFeatures features
MaxFeatures == 3

\* properties objects: none or no signal property, a signal property that
\* is not a number or not positive, and positive values around the tiers
FeatureKinds ==
    {NoProps,
     "name" :> Str(<<"c", "e", "l", "l">>),
     "signal" :> Str(<<"s", "t", "r", "o", "n", "g">>),
     "signal" :> Num(0),
     "rssi" :> Num(-70),
     "quality" :> Num(64),
     "quality" :> Num(65),
     "strength" :> Num(84),
     "level" :> Num(85),
     "power" :> Num(150),
     ("signal" :> Num(30)) @@ ("level" :> Num(100))}

FeatureLists == UNION {[1..m -> FeatureKinds] : m \in 0..MaxFeatures}

ParseCoverageResult ==
    /\ eval = NoEval
    /\ \E payload \in Payloads :
          Apply("parseCoverageResult", payload, parseCoverageResult(payload))

AnalyzeCoverageFeatures ==
    /\ eval = NoEval
    /\ \E features \in FeatureLists, techType \in LayerTechs :
          Apply("analyzeCoverageFeatures",
                [features |-> features, techType |-> techType],
                analyzeCoverageFeatures(features, techType))

\* every boundary of a province rectangle and the values one step to
\* either side of it
BoundaryValues(axis) ==
    UNION {{provinces[k][axis][side] + d : d \in {-1, 0, 1}} :
              k \in 1..Len(provinces), side \in 1..2}

ProvincePoints ==
    (BoundaryValues("lat") \cup {Johannesburg[1]})
        \X (BoundaryValues("lng") \cup {Johannesburg[2]})

GetProvince ==
    /\ eval = NoEval
    /\ \E pt \in ProvincePoints :
          Apply("getProvince", [lat |-> pt[1], lng |-> pt[2]], getProvince(pt[1], pt[2]))

\* MTNApi.getWMSMapUrl: '' without a layer configuration, else the URL, of
\* which the layer parameters are kept
getWMSMapUrl(technology) ==
    IF technology \notin LayerTechs THEN Str(<<>>)
    ELSE LET layerConfig ==
                 technologyLayers[CHOOSE k \in 1..NumLayers :
                                      technologyLayers[k].tech = technology]
         IN  [mlid |-> layerConfig.mlid, LAYERS |-> layerConfig.geoserverLayer]

\* the layer table of the coverage proxy
layerMap ==
    [t \in {"ALL", "2G", "3G", "4G", "5G", "UNCAPPED_WIRELESS", "FIBRE",
            "LICENSED_WIRELESS", "FIXED_LTE"} |->
        CASE t = "UNCAPPED_WIRELESS" -> "UncappedWirelessEBU"
          [] t = "FIBRE" -> "FTTBCoverage"
          [] t = "LICENSED_WIRELESS" -> "PMPCoverage"
          [] t = "FIXED_LTE" -> "FLTECoverageEBU"
          [] OTHER -> "EBU-RBUS-ALL"]

\* the proxy's layer lookup: layerMap[technology] || 'EBU-RBUS-ALL'
proxyLayer(technology) ==
    [mlid |-> IF technology \in DOMAIN layerMap THEN layerMap[technology]
              ELSE "EBU-RBUS-ALL"]

\* technology names of the registry and names absent from it
TechnologyNames == LayerTechs \cup {"6G", "LTE", "all", ""}

GetWMSMapUrl ==
    /\ eval = NoEval
    /\ \E technology \in TechnologyNames :
          Apply("getWMSMapUrl", technology, getWMSMapUrl(technology))

ProxyLayerLookup ==
    /\ eval = NoEval
    /\ \E technology \in TechnologyNames :
          Apply("proxyLayer", technology, proxyLayer(technology))

\* A body field of a proxy answer is a text or a URL (its base and its
\* query parameters as <<name, value>> pairs).
Text(chars) == [kind |-> "text", chars |-> chars]
Url(base, params) == [kind |-> "url", base |-> base, params |-> params]

\* url.replace(/([?&])(lat|lng|X|Y|BBOX)=[^&]*/g, '$1$2=***')
maskUrl(url) ==
    Url(url.base,
        [k \in 1..Len(url.params) |->
            IF url.params[k][1] \in {"lat", "lng", "X", "Y", "BBOX"}
            THEN <<url.params[k][1], "***">>
            ELSE url.params[k]])

timeoutWord == <<"t", "i", "m", "e", "o", "u", "t">>

requestTimeoutMessage ==
    <<"R", "e", "q", "u", "e", "s", "t", " ", "t", "i", "m", "e", "o", "u", "t", " ", "-", " ">>
    \o <<"M", "T", "N", " ", "A", "P", "I", " ", "t", "o", "o", " ", "s", "l", "o", "w">>

failedToFetchMessage ==
    <<"F", "a", "i", "l", "e", "d", " ", "t", "o", " ", "f", "e", "t", "c", "h", " ">>
    \o <<"c", "o", "v", "e", "r", "a", "g", "e", " ", "d", "a", "t", "a">>

\* the proxy handler once its upstream fetch has settled without success:
\* a non-2xx response (its status and status text) or a thrown error
proxyFailure(url, outcome) ==
    IF outcome.kind = "status"
    THEN [status |-> outcome.status,
          body |-> [error |-> Text(<<"M", "T", "N", " ", "A", "P", "I", " ", "e", "r", "r", "o", "r", ":", " ">>
                                   \o outcome.statusCode \o <<" ">> \o outcome.statusText),
                    url |-> maskUrl(url)]]
    ELSE IF outcome.name = "AbortError" \/ includes(outcome.message, timeoutWord)
    THEN [status |-> 504, body |-> [error |-> Text(requestTimeoutMessage)]]
    ELSE [status |-> 500,
          body |-> [error |-> Text(failedToFetchMessage),
                    details |-> Text(outcome.message)]]

\* the GetFeatureInfo URL of a request, of which some parameters are kept
UpstreamUrl ==
    Url("https://mtnsi.mtn.co.za/cache/geoserver/wms",
        <<<<"mlid", "EBU-RBUS-ALL">>, <<"REQUEST", "GetFeatureInfo">>,
          <<"X", "50">>, <<"Y", "50">>, <<"BBOX", "28.03,-26.21,28.05,-26.19">>>>)

\* what the upstream fetch can end with short of a 2xx answer; timedOut
\* tells whether the transport gave up waiting
UpstreamFailures ==
    {[kind |-> "status", status |-> st[1], statusCode |-> st[2],
      statusText |-> <<"E", "r", "r">>, timedOut |-> FALSE] :
        st \in {<<404, <<"4", "0", "4">>>>, <<500, <<"5", "0", "0">>>>,
                <<503, <<"5", "0", "3">>>>}}
    \cup {[kind |-> "throw", name |-> "AbortError",
           message |-> <<"a", "b", "o", "r", "t", "e", "d">>, timedOut |-> TRUE],
          [kind |-> "throw", name |-> "FetchError",
           message |-> <<"n", "e", "t", " ">> \o timeoutWord, timedOut |-> TRUE],
          [kind |-> "throw", name |-> "TypeError",
           message |-> <<"f", "e", "t", "c", "h", " ", "f", "a", "i", "l", "e", "d">>,
           timedOut |-> FALSE],
          [kind |-> "throw", name |-> "Error",
           message |-> <<"E", "N", "O", "T", "F", "O", "U", "N", "D">>, timedOut |-> FALSE]}

ProxyFailure ==
    /\ eval = NoEval
    /\ \E outcome \in UpstreamFailures :
          Apply("proxyFailure", outcome, proxyFailure(UpstreamUrl, outcome))

\* one application per run
NextFunctions ==
    \/ ParseCoverageResult
    \/ AnalyzeCoverageFeatures
    \/ GetProvince
    \/ GetWMSMapUrl
    \/ ProxyLayerLookup
    \/ ProxyFailure

SpecFunctions == InitFunctions /\ [][NextFunctions]_vars

\* a and b are the same letter, whatever their case
SameLetter(a, b) ==
    \/ a = b
    \/ \E k \in 1..Len(lowerCase) : {a, b} = {lowerCase[k], upperCase[k]}

\* chars contains the marker in some letter case
ContainsAnyCase(chars, marker) ==
    \E k \in 1..Len(chars) :
        /\ k + Len(marker) - 1 <= Len(chars)
        /\ \A j \in 1..Len(marker) : SameLetter(chars[k + j - 1], marker[j])

\* nothing is left of chars once leading and trailing white space is removed
BlankAfterTrim(chars) == \A k \in 1..Len(chars) : chars[k] \in {" ", "\t", "\n", "\r"}

\* C15: a wrapped text payload is available unless its content is empty after
\* trimming or contains 'no features' or 'outside' in any letter case; a
\* wrapped binary payload is available exactly when its content is not
\* empty; the outcome is a boolean only, with no quality or strength
C15_DecisionPolicy ==
    (/\ eval.fn = "parseCoverageResult"
     /\ Has(eval.input, "type")
     /\ Has(eval.input, "content")) =>
        LET chars == eval.input.content.chars
        IN  /\ ~eval.output.threw
            /\ eval.output.value \in BOOLEAN
            /\ eval.input.type = "text" =>
                  (eval.output.value <=>
                      /\ ~BlankAfterTrim(chars)
                      /\ ~ContainsAnyCase(chars, <<"n", "o", " ", "f", "e", "a", "t", "u", "r", "e", "s">>)
                      /\ ~ContainsAnyCase(chars, <<"o", "u", "t", "s", "i", "d", "e">>))
            /\ eval.input.type = "binary" => (eval.output.value <=> Len(chars) > 0)

\* a text payload that holds 'No Features' in mixed case between other
\* characters was judged unavailable
C15_Witness ==
    /\ eval.fn = "parseCoverageResult"
    /\ eval.input = [type |-> "text",
                     content |-> Str(<<"x", "N", "o", " ", "F", "e", "a", "t", "u", "r", "e", "s", " ">>)]
    /\ eval.output = Return(FALSE)

\* no feature of the list carries a numeric signal-related property
NoNumericSignal(features) ==
    \A n \in DOMAIN features :
        \A prop \in {"signal", "strength", "quality", "level", "power", "rssi"} :
            prop \in DOMAIN features[n] => features[n][prop].kind # "number"

\* the documented default quality per technology
DocumentedDefault(techType) ==
    CASE techType = "2G" -> 60
      [] techType = "3G" -> 70
      [] techType = "4G" -> 85
      [] techType = "5G" -> 95
      [] techType = "UNCAPPED_WIRELESS" -> 80
      [] techType = "FIBRE" -> 98
      [] techType = "FIXED_LTE" -> 75

\* C16: for a non-empty feature list in which no feature carries a numeric
\* signal-related property, the quality returned is the documented default
\* of the technology
C16_DefaultQuality ==
    (/\ eval.fn = "analyzeCoverageFeatures"
     /\ Len(eval.input.features) > 0
     /\ NoNumericSignal(eval.input.features)
     /\ eval.input.techType \in {"2G", "3G", "4G", "5G", "UNCAPPED_WIRELESS",
                                 "FIBRE", "FIXED_LTE"}) =>
        eval.output.quality = DocumentedDefault(eval.input.techType)

\* FIBRE with a feature whose signal is a string and a feature without
\* properties: quality 98
C16_Witness ==
    /\ eval.fn = "analyzeCoverageFeatures"
    /\ eval.input.techType = "FIBRE"
    /\ eval.input.features =
          <<"signal" :> Str(<<"s", "t", "r", "o", "n", "g">>), NoProps>>
    /\ eval.output.quality = 98

\* C17: for every non-empty feature list the strength is 'high' iff the
\* returned quality is at least 85 and there are at least 3 features,
\* otherwise 'medium' iff the returned quality is at least 65 or there are at
\* least 2 features, otherwise 'low'
C17_StrengthTier ==
    (eval.fn = "analyzeCoverageFeatures" /\ Len(eval.input.features) > 0) =>
        LET quality == eval.output.quality
            count == Len(eval.input.features)
        IN  eval.output.strength =
                IF quality >= 85 /\ count >= 3 THEN "high"
                ELSE IF quality >= 65 \/ count >= 2 THEN "medium"
                ELSE "low"

\* three features of value 150: the quality is clamped to 100 and the
\* strength is 'high'
C17_Witness ==
    /\ eval.fn = "analyzeCoverageFeatures"
    /\ Len(eval.input.features) = 3
    /\ \A n \in 1..3 : eval.input.features[n] = ("power" :> Num(150))
    /\ eval.output = [strength |-> "high", quality |-> 100]

\* C18 (as claimed): an in-bounds lookup in which every layer's request
\* answers with a non-empty feature collection without signal properties
\* returns success = true, no errors and exactly 8 observations, one per
\* supported technology, each with available = true
C18_EightObservations ==
    \A p \in Procs :
        (/\ calls[p].pc = "done"
         /\ calls[p].plan # <<>>
         /\ \A k \in 1..NumLayers :
               /\ OkWithFeatures(calls[p].plan[k])
               /\ NoNumericSignal(calls[p].plan[k].features)) =>
            /\ calls[p].ret.success
            /\ calls[p].ret.errors = <<>>
            /\ Has(calls[p].ret.coverage, "mtnGeoServer")
            /\ LET types == calls[p].ret.coverage.mtnGeoServer.types
               IN  /\ Len(types) = 8
                   /\ {types[n].type : n \in DOMAIN types} =
                         {"2G", "3G", "4G", "5G", "UNCAPPED_WIRELESS", "FIBRE",
                          "LICENSED_WIRELESS", "FIXED_LTE"}
                   /\ \A n \in DOMAIN types : types[n].available = TRUE

\* the province names in table order
ProvinceOrder ==
    <<"Gauteng", "Western Cape", "KwaZulu-Natal", "Eastern Cape", "Limpopo",
      "Mpumalanga", "North West", "Free State", "Northern Cape">>

\* the inclusive rectangle of the k-th province contains the point
RectangleContains(k, lat, lng) ==
    /\ provinces[k].lat[1] <= lat /\ lat <= provinces[k].lat[2]
    /\ provinces[k].lng[1] <= lng /\ lng <= provinces[k].lng[2]

\* C19: getProvince returns the first province in table order whose
\* inclusive rectangle contains the point, also where rectangles overlap,
\* and 'Unknown' exactly when no rectangle contains it; (-26.2041, 28.0473)
\* is Gauteng
C19_FirstMatchingProvince ==
    eval.fn = "getProvince" =>
        LET lat == eval.input.lat
            lng == eval.input.lng
        IN  /\ [k \in 1..Len(provinces) |-> provinces[k].name] = ProvinceOrder
            /\ eval.output \in {ProvinceOrder[k] : k \in 1..9} \cup {"Unknown"}
            /\ eval.output = "Unknown" <=> \A k \in 1..9 : ~RectangleContains(k, lat, lng)
            /\ \A k \in 1..9 :
                  eval.output = ProvinceOrder[k] =>
                      /\ RectangleContains(k, lat, lng)
                      /\ \A j \in 1..(k - 1) : ~RectangleContains(j, lat, lng)
            /\ (lat = -2620410 /\ lng = 2804730) => eval.output = "Gauteng"

\* Johannesburg, which the rectangles of Gauteng and of North West both
\* contain, was classified as Gauteng
C19_Witness ==
    /\ eval.fn = "getProvince"
    /\ eval.input = [lat |-> -2620410, lng |-> 2804730]
    /\ RectangleContains(1, -2620410, 2804730)
    /\ RectangleContains(7, -2620410, 2804730)
    /\ eval.output = "Gauteng"

\* the nine names of the layer registry
RegistryNames ==
    {"ALL", "2G", "3G", "4G", "5G", "UNCAPPED_WIRELESS", "FIBRE",
     "LICENSED_WIRELESS", "FIXED_LTE"}

\* C20 (as claimed): a technology absent from the layer registry is
\* signalled as unsupported, and is not served from another technology's
\* layer: getWMSMapUrl builds no URL for it and the proxy's layer lookup
\* yields no layer for it
C20_UnsupportedTechnologySignalled ==
    (eval.fn \in {"getWMSMapUrl", "proxyLayer"} /\ eval.input \notin RegistryNames) =>
        /\ ~Has(eval.output, "mlid")
        /\ ~Has(eval.output, "LAYERS")

(***************************************************************************)
(* Specification of two callers of MTNApi.checkCoverage, one lookup each,  *)
(* for points of the same cache key; their continuations interleave at     *)
(* the awaits.                                                             *)
(***************************************************************************)
RacePoints == {Johannesburg, <<-2620412, 2804731>>}

RacePlans == {UniformPlan(Features(OneFeature)), FailingPlan, PartialPlan(3)}

\* the fallback requests fail, but the public query may answer
RaceFallbackResponses == {NetReject, NoFeatures}

InitRace == Init /\ session = [api |-> "MTNApi", points |-> RacePoints]

NextRace ==
    \/ \E p \in Procs, pt \in RacePoints, plan \in RacePlans :
          /\ calls[p].pc = "idle"
          /\ MTNCheckCoverage(p, pt[1], pt[2], NoAddress, plan)
    \/ \E p \in Procs : MTNLayerSettles(p)
    \/ \E p \in Procs, e \in 1..Len(fallbackEndpoints), resp \in RaceFallbackResponses :
          /\ resp = NoFeatures => e = 1
          /\ MTNFallbackSettles(p, e, resp)
    \/ Tick(1)

SpecRace == InitRace /\ [][NextRace]_vars

\* both callers' lookups went to the transport and have ended
BothLookedUp ==
    \A p \in Procs : calls[p].pc = "done" /\ calls[p].fetches > 0

RaceKey == cacheKeyOf(Johannesburg[1], Johannesburg[2])

\* the entry of the key is exactly what caller p returned and wrote
EntryOf(p) ==
    /\ cache[RaceKey].data = calls[p].ret
    /\ cache[RaceKey].timestamp = calls[p].doneAt

\* C21 (as claimed): after two lookups of the same key that both went to the
\* transport, the cache holds exactly one entry for the key: the complete,
\* successful result of one of them
C21_RaceLeavesOneEntry ==
    BothLookedUp =>
        /\ DOMAIN cache = {RaceKey}
        /\ cache[RaceKey].data.success
        /\ \E p \in Procs : EntryOf(p)

\* C21 (amended): the same, if at least one of the two ended with
\* success = true: the entry is the result of a successful lookup that no
\* other successful lookup outlasted; if both ended with success = false the
\* cache holds no entry.  At any time an entry is a successful result.
C21_RaceLastWriteWins ==
    /\ \A k \in DOMAIN cache : cache[k].data.success = TRUE
    /\ BothLookedUp =>
          LET writers == {p \in Procs : calls[p].ret.success}
          IN  IF writers = {} THEN cache = EmptyObject
              ELSE /\ DOMAIN cache = {RaceKey}
                   /\ \E p \in writers :
                         /\ EntryOf(p)
                         /\ \A q \in writers : calls[q].doneAt <= calls[p].doneAt

\* both lookups started at the same instant, both succeeded with different
\* results, caller 1 ended after caller 2, and the entry is caller 1's
C21_Witness ==
    /\ BothLookedUp
    /\ calls[1].ret.timestamp = calls[2].ret.timestamp
    /\ calls[1].ret.success /\ calls[2].ret.success
    /\ calls[1].ret # calls[2].ret
    /\ calls[1].doneAt > calls[2].doneAt
    /\ EntryOf(1)
    /\ ~EntryOf(2)

\* C22 (as claimed): the proxy relays an upstream non-2xx status unchanged,
\* answers a transport timeout with 504 and any other thrown error with 500,
\* and none of these bodies holds the upstream URL or the text of the
\* thrown error
C22_ProxyErrorBodies ==
    eval.fn = "proxyFailure" =>
        LET body == eval.output.body
        IN  /\ eval.input.kind = "status" => eval.output.status = eval.input.status
            /\ (eval.input.kind = "throw" /\ eval.input.timedOut) => eval.output.status = 504
            /\ (eval.input.kind = "throw" /\ ~eval.input.timedOut) => eval.output.status = 500
            /\ \A field \in DOMAIN body :
                  /\ body[field].kind # "url"
                  /\ eval.input.kind = "throw" =>
                        body[field].chars # eval.input.message

\* C23 (as claimed): a lookup that meets an entry whose age does not exceed
\* the TTL, the age equal to the TTL included, is answered with the entry's
\* data without a request
C23_ServedThroughTimeout ==
    [][\A p \in Procs :
        (/\ Starts(p)
         /\ InEnvelope(calls'[p].lat, calls'[p].lng)
         /\ KeyOfFrame(calls'[p]) \in DOMAIN cache
         /\ now - cache[KeyOfFrame(calls'[p])].timestamp <= cacheTimeout)
        => (/\ calls'[p].pc = "done"
            /\ calls'[p].fetches = 0
            /\ calls'[p].ret = cache[KeyOfFrame(calls'[p])].data
            /\ cache' = cache)]_vars

\* every numeric value of the features under a signal-related name, of any
\* sign
RECURSIVE NumericValues(_)
NumericValues(features) ==
    IF features = <<>> THEN <<>>
    ELSE LET f == Head(features)
             named == SelectSeq(signalProps,
                                LAMBDA prop : prop \in DOMAIN f /\ f[prop].kind = "number")
         IN  [k \in 1..Len(named) |-> f[named[k]].n] \o NumericValues(Tail(features))

\* C24 (as claimed): the quality is the rounded mean of every numeric value
\* under a signal-related name, zero and negative values included, and the
\* per-technology default is used only when no such numeric value exists
C24_MeanOfEveryNumericValue ==
    (eval.fn = "analyzeCoverageFeatures" /\ Len(eval.input.features) > 0) =>
        LET vals == NumericValues(eval.input.features)
        IN  eval.output.quality =
                IF Len(vals) > 0
                THEN Min(100, Max(0, RoundDiv(SumSeq(vals), Len(vals))))
                ELSE IF eval.input.techType \in DOMAIN techQuality
                     THEN DocumentedDefault(eval.input.techType)
                     ELSE 70

\* the number of observations the primary lookup of caller p holds once the
\* answer to its pending request is processed
ObservationsWith(p) ==
    LET f == calls[p]
        coverage == checkTechnologyCoverage(f.plan[f.i], technologyLayers[f.i])
    IN  Len(f.availableTechnologies)
        + (IF ~coverage.threw /\ coverage.value # Null THEN 1 ELSE 0)

\* caller p's primary lookup ends in this step
PrimaryEnds(p) ==
    /\ calls[p].pc = "primary"
    /\ calls[p].i = NumLayers
    /\ calls'[p] # calls[p]

WritesAggregate(p) ==
    /\ calls[p].pc \in {"primary", "fallback"}
    /\ calls'[p].pc = "done"
    /\ calls'[p].ret.success
    /\ cache' = (KeyOfFrame(calls[p]) :> [data |-> calls'[p].ret, timestamp |-> now]) @@ cache

\* C26 (as claimed): the cache changes only by the write that follows a
\* successful aggregate
C26_OnlyWritesChangeCache ==
    [][cache' # cache => \E p \in Procs : WritesAggregate(p)]_vars

\* caller p's lookup, starting in this step, meets an expired entry under
\* its own key and removes it
EvictsExpired(p) ==
    /\ Starts(p)
    /\ calls'[p].pc = "primary"
    /\ KeyOfFrame(calls'[p]) \in DOMAIN cache
    /\ now - cache[KeyOfFrame(calls'[p])].timestamp >= cacheTimeout
    /\ cache' = MapDelete(cache, KeyOfFrame(calls'[p]))

\* C26: the cache changes only by the write that follows a successful
\* aggregate or by a lookup removing the expired entry of its own key; a
\* call rejected by the bounds check or answered from the cache changes
\* nothing, and while a call that ends with success = false is under way
\* after its lookup, the cache stays as it is
C26_CacheFrame ==
    /\ [][cache' # cache => \E p \in Procs : WritesAggregate(p) \/ EvictsExpired(p)]_vars
    /\ [][\A p \in Procs :
            /\ (Starts(p) /\ calls'[p].pc = "done") => cache' = cache
            /\ (/\ calls[p].pc \in {"primary", "fallback"}
                /\ calls'[p] # calls[p]
                /\ calls'[p].pc = "done" => ~calls'[p].ret.success) => cache' = cache]_vars

\* a lookup that met an expired entry and ended with success = false: the
\* entry that was there before the call is gone
C26_Witness ==
    /\ calls[1].pc = "done"
    /\ ~calls[1].ret.success
    /\ calls[1].fetches = NumLayers + Len(fallbackEndpoints)
    /\ calls[1].metAge >= cacheTimeout
    /\ cache = EmptyObject

(***************************************************************************)
(* Specification of two callers that each make one lookup, at points of    *)
(* one cache key, with or without an address argument; the second caller   *)
(* starts once the first has its result.                                   *)
(***************************************************************************)
RepeatAddresses == {NoAddress, Address("12 Main Rd")}

RepeatPlans == {UniformPlan(Features(OneFeature)), FailingPlan}

NextRepeat ==
    \/ \E p \in Procs, pt \in RacePoints, address \in RepeatAddresses, plan \in RepeatPlans :
          /\ calls[p].pc = "idle"
          /\ p = 2 => calls[1].pc = "done"
          /\ MTNCheckCoverage(p, pt[1], pt[2], address, plan)
    \/ \E p \in Procs : MTNLayerSettles(p)
    \/ \E p \in Procs, e \in 1..Len(fallbackEndpoints), resp \in RaceFallbackResponses :
          /\ resp = NoFeatures => e = 1
          /\ MTNFallbackSettles(p, e, resp)
    \/ \E d \in ClockSteps : Tick(d)

SpecRepeat == InitRace /\ [][NextRepeat]_vars

\* caller q's lookup was answered from the cache
AnsweredFromCache(q) ==
    /\ calls[q].pc = "done"
    /\ calls[q].reads = 1
    /\ calls[q].fetches = 0

\* C27: lookups whose coordinates round to the same 4-decimal values use one
\* cache key whatever their raw coordinates and address arguments; within
\* the TTL the second is answered from the entry the first wrote, and
\* receives the first call's coordinates, address and timestamp
C27_SecondCallGetsFirstResult ==
    /\ [](\A pt, other \in RacePoints : cacheKeyOf(pt[1], pt[2]) = cacheKeyOf(other[1], other[2]))
    /\ [][\A q \in Procs :
            (/\ Starts(q)
             /\ KeyOfFrame(calls'[q]) \in DOMAIN cache
             /\ now - cache[KeyOfFrame(calls'[q])].timestamp < cacheTimeout)
            => (/\ calls'[q].pc = "done"
                /\ calls'[q].fetches = 0
                /\ calls'[q].ret = cache[KeyOfFrame(calls'[q])].data)]_vars
    /\ [](\A p, q \in Procs :
            (p # q /\ AnsweredFromCache(q)) =>
                /\ calls[p].pc = "done"
                /\ calls[p].writes = 1
                /\ calls[q].metAge < cacheTimeout
                /\ calls[q].ret = calls[p].ret
                /\ calls[q].ret.coordinates = [lat |-> calls[p].lat, lng |-> calls[p].lng]
                /\ calls[q].ret.address =
                      addressOrCoordinates(calls[p].address, calls[p].lat, calls[p].lng)
                /\ calls[q].ret.timestamp <= calls[p].doneAt)

\* the second call differs from the first in its raw coordinates and in its
\* address argument and is made later, and it receives the first call's
\* result
C27_Witness ==
    /\ AnsweredFromCache(2)
    /\ calls[1].pc = "done"
    /\ <<calls[2].lat, calls[2].lng>> # <<calls[1].lat, calls[1].lng>>
    /\ calls[2].address = Address("12 Main Rd")
    /\ calls[1].address = NoAddress
    /\ calls[2].doneAt > calls[2].ret.timestamp
    /\ calls[2].ret.coordinates = [lat |-> calls[1].lat, lng |-> calls[1].lng]
    /\ calls[2].ret.address = [formatted |-> <<calls[1].lat, calls[1].lng>>]

\* C29 (as claimed): the result of ApiClient.checkCoverage has exactly the
\* eight technology keys, each with exactly one observation of that
\* technology; a technology whose request failed is recorded as unavailable
\* with 'No Signal', and no failure reason appears in the result
C29_EightKeysNoReason ==
    (client.op = "checkCoverage" /\ client.pc = "done") =>
        /\ DOMAIN client.ret.coverage =
              {clientTechnologies[k] : k \in DOMAIN clientTechnologies}
        /\ \A k \in DOMAIN clientTechnologies :
              LET tech == clientTechnologies[k]
                  held == client.ret.coverage[tech]
              IN  /\ Len(held.types) = 1
                  /\ held.types[1].type = tech
                  /\ RequestFails(client.plan[k]) =>
                        /\ held.types[1].available = FALSE
                        /\ held.types[1].signal_strength = "No Signal"
        /\ ~Has(client.ret, "error")

(***************************************************************************)
(* Specification of App: address selections, map clicks, refreshes and     *)
(* toggles of the user, and the settlement of the lookups in flight in any *)
(* order.                                                                  *)
(***************************************************************************)
AppPlaces ==
    {[address |-> Address("12 Main Rd"), lat |-> Johannesburg[1], lng |-> Johannesburg[2]],
     [address |-> Address("1 Long St"), lat |-> -3392490, lng |-> 1842410]}

ToggledTechnologies == {"2G", "5G"}

InitApp == Init /\ session.api = "App"

NextApp ==
    \/ \E l \in Procs, place \in AppPlaces :
          HandleAddressSelect(l, place.address, place.lat, place.lng)
    \/ \E l \in Procs, place \in AppPlaces :
          HandleMapLocationSelect(l, place.lat, place.lng, place.address)
    \/ \E l \in Procs : HandleRefresh(l)
    \/ \E technology \in ToggledTechnologies, enabled \in BOOLEAN :
          HandleTechnologyToggle(technology, enabled)
    \/ \E l \in Procs, plan \in ClientPlans : LookupSettles(l, plan)
    \/ \E l \in Procs : LookupRejects(l, "Network down")

SpecApp == InitApp /\ [][NextApp]_vars

InFlight(a) == {l \in Procs : a.lookups[l].pc = "awaiting"}

\* the lookup of frame l settles in this step
Settles(l) == app.lookups[l].pc = "awaiting" /\ app'.lookups[l].pc = "done"

\* the frame of the most recently started lookup
MostRecent(a) == CHOOSE l \in Procs : \A m \in Procs : a.lookups[m].order <= a.lookups[l].order

\* C28 (as claimed): when the last lookup in flight settles, the result,
\* availableTechnologies and toggleState shown are those of the most
\* recently started lookup, and isLoading is true as long as a lookup is in
\* flight
C28_LatestLookupShown ==
    /\ [](InFlight(app) # {} => app.isLoading)
    /\ [][\A l \in Procs :
            (Settles(l) /\ InFlight(app') = {}) =>
                Shown(app') = app'.lookups[MostRecent(app')].shown]_vars

\* the technologies with an available observation in some source of a
\* lookup's result
AvailableIn(result) ==
    {tech \in DOMAIN noneSelected :
        \E source \in DOMAIN result.coverage :
            \E n \in DOMAIN result.coverage[source].types :
                /\ result.coverage[source].types[n].type = tech
                /\ result.coverage[source].types[n].available}

\* C30: when handleAddressSelect completes with a resolved lookup,
\* toggleState is true exactly for the technologies with an available
\* observation in some source of the result and availableTechnologies lists
\* exactly those, each once; when the lookup throws, availableTechnologies
\* is empty, result is a success = false record with one 'api' error and
\* toggleState is unchanged; in both cases isLoading is false
C30_CompletionState ==
    [][\A l \in Procs :
        Settles(l) =>
            LET outcome == app'.lookups[l].outcome
                listed == app'.availableTechnologies
            IN  /\ ~app'.isLoading
                /\ ~outcome.threw =>
                      /\ app'.result = outcome.value
                      /\ \A tech \in DOMAIN noneSelected :
                            app'.toggleState[tech] = (tech \in AvailableIn(outcome.value))
                      /\ {listed[k] : k \in DOMAIN listed} = AvailableIn(outcome.value)
                      /\ \A j, k \in DOMAIN listed : j # k => listed[j] # listed[k]
                /\ outcome.threw =>
                      /\ listed = <<>>
                      /\ app'.result.success = FALSE
                      /\ Len(app'.result.errors) = 1
                      /\ app'.result.errors[1].endpoint = "api"
                      /\ app'.result.coordinates =
                            [lat |-> app.lookups[l].lat, lng |-> app.lookups[l].lng]
                      /\ app'.toggleState = app.toggleState]_vars

\* a lookup resolved with 2G and 4G available and the others not, and
\* the next lookup threw: the toggles of the first are still set
C30_Witness ==
    /\ app.lookups[1].pc = "done"
    /\ ~app.lookups[1].outcome.threw
    /\ app.lookups[1].shown.availableTechnologies = <<"2G", "4G">>
    /\ app.lookups[2].pc = "done"
    /\ app.lookups[2].outcome.threw
    /\ app.lookups[2].order > app.lookups[1].order
    /\ app.availableTechnologies = <<>>
    /\ app.toggleState = [noneSelected EXCEPT !["2G"] = TRUE, !["4G"] = TRUE]
    /\ ~app.isLoading

====
